---- MODULE Spec2Model ----
(***************************************************************************)
(* Faceblock: the application controller (state, photo pipeline, queue,    *)
(* canvas eviction, undo/redo history) and the part of the UI module that  *)
(* the controller drives.                                                   *)
(*                                                                         *)
(* JavaScript runs one task at a time.  An async function runs             *)
(* synchronously up to an await of an external operation (thumbnail        *)
(* generation, loadAndDetect, redetect); everything between two such       *)
(* awaits is one atomic step here.  An await of an async function that     *)
(* returned without reaching an external await resumes in a microtask,     *)
(* before any other event, so it belongs to the same step.                 *)
(*                                                                         *)
(* Numbers in the source are IEEE doubles; all coordinates used here are   *)
(* integers chosen so that every division in the modelled code is exact.    *)
(***************************************************************************)
EXTENDS Integers, Sequences, FiniteSets, TLC

\* ---------------------------------------------------------------- constants
MAX_PHOTOS == 20
MAX_LOADED_CANVASES == 3
MAX_UNDO == 50
\* MANUAL_REGION_RATIO = 0.15, as a percentage
MANUAL_REGION_RATIO == 15

\* ------------------------------------------------------------------- bounds
\* photo objects ever created by createPhotoState in one behaviour
MaxFiles == 3
\* files in one selection
MaxSelect == 2
\* external operations awaited at the same time
MaxTasks == 2
\* files of the selection that starts a behaviour of the eviction
\* specification
EvictFiles == 4
\* canvas gestures (clicks, draws, drags, removals) in one behaviour that
\* starts from a fresh photo
MaxEdits == 3
\* canvas gestures in one behaviour that starts from a full undo stack
MaxDeepEdits == 1
\* distinct values of Date.now() seen by the handlers that create regions
MaxClock == 2
\* loads and detections that fail in one behaviour
MaxFailures == 1
\* regions drawn in one behaviour of the photo pipeline
MaxDraws == 1
\* batch exports started in one behaviour
MaxExports == 1
\* files selected after the first selection in the specification of the
\* surfaces
CanvasMoreFiles == 1
\* sensitivity changes in one behaviour
MaxRedetects == 1
\* canvas gestures in one behaviour with re-detection
RedetectEdits == 2
\* re-detections awaited at the same time
RedetectTasks == 1
\* external operations awaited at the same time in the eviction specification
EvictTasks == 1
\* files of the selection that starts a behaviour with direct calls of
\* processPhoto, its canvas gestures, and its operations awaited at a time
ProcessFiles == 2
ProcessEdits == 2
ProcessTasks == 2
\* files of the selection that starts a behaviour near the photo limit, the
\* files selected after it, and its operations awaited at a time
CapacityFiles == 18
CapacityMoreFiles == 4
CapacityTasks == 3
\* photos loaded at the start of a behaviour that edits several photos, and
\* its canvas gestures
PairFiles == 2
PairEdits == 3
\* files of the selection that starts a behaviour of switches between
\* photos whose loads may fail, its canvas gestures, and its operations
\* awaited at a time
SwitchFiles == 2
SwitchEdits == 1
SwitchTasks == 2

\* ------------------------------------------------------------------ values
Null == 0
NullId == <<>>
FaceId(i) == <<"face", i>>
ManualId(t) == <<"manual", t>>
Sensitivities == {"low", "medium", "high"}
\* every decoded image is drawn on a canvas of this size
CanvasSize == [width |-> 400, height |-> 400]

Box(x, y, w, h) == [x |-> x, y |-> y, width |-> w, height |-> h]

Min(a, b) == IF a < b THEN a ELSE b
Max(a, b) == IF a > b THEN a ELSE b

\* the faces the detector reports for the file of photo pid, in order:
\* odd photos show one clear face and one small one, even photos only a
\* small one; the small one is found at high sensitivity only
DetectorBoxes(pid, sens) ==
  LET clear == IF pid % 2 = 1 THEN <<Box(40, 40, 80, 80)>> ELSE <<>>
      small == IF sens = "high" THEN <<Box(200, 40, 60, 60)>> ELSE <<>>
  IN  clear \o small

\* detectFaces: ids face-<index>, manual false, landmarks from the detector
detectFaces(pid, sens) ==
  LET bs == DetectorBoxes(pid, sens)
  IN  [i \in 1..Len(bs) |->
         [id |-> FaceId(i - 1), box |-> bs[i], score |-> 90,
          landmarks |-> "landmarks", manual |-> FALSE, oid |-> 0]]

\* --------------------------------------------------------- object identity
\* A face object in photo.faces can also be referenced by the manualFaces
\* array of a re-detection in flight.  oid names the object; copies made by
\* the snapshots carry oid 0 until they are installed as the face list.
StripOid(fs) == [i \in 1..Len(fs) |-> [fs[i] EXCEPT !.oid = 0]]

RECURSIVE NthFree(_, _)
NthFree(used, n) ==
  LET m == CHOOSE k \in 1..(Cardinality(used) + 1) :
             k \notin used /\ \A j \in 1..(k - 1) : j \in used
  IN  IF n = 1 THEN m ELSE NthFree(used \cup {m}, n - 1)

WithOids(fs, used) == [i \in 1..Len(fs) |-> [fs[i] EXCEPT !.oid = NthFree(used, i)]]

OidsOf(fs) == {fs[i].oid : i \in 1..Len(fs)}

RECURSIVE IndexOfFirst(_, _, _)
\* Array.prototype.findIndex over a sequence of records, on field id; 0 = -1
IndexOfFirst(fs, id, i) ==
  IF i > Len(fs) THEN 0
  ELSE IF fs[i].id = id THEN i ELSE IndexOfFirst(fs, id, i + 1)

RemoveAt(s, i) == [j \in 1..(Len(s) - 1) |-> IF j < i THEN s[j] ELSE s[j + 1]]

RECURSIVE IndexIn(_, _, _)
\* position of value v in sequence s, 0 when absent
IndexIn(s, v, i) ==
  IF i > Len(s) THEN 0 ELSE IF s[i] = v THEN i ELSE IndexIn(s, v, i + 1)

InSeq(s, v) == \E i \in 1..Len(s) : s[i] = v

\* -------------------------------------------------------------------- state
VARIABLES
  photos,         \* state.photos: the ids of the photo objects, in order
  photo,          \* the photo objects created so far, by id
  activePhotoId,  \* state.activePhotoId
  sensitivity,    \* state.sensitivity
  queueRunning,   \* queueRunning
  tasks,          \* external operations awaited, oldest first, with continuations
  now,            \* the last value Date.now() returned to a region creator
  ui,             \* what the UI module shows and remembers
  op,             \* history: the step taken last
  recent,         \* history: photo ids in the order they last became active
  track,          \* history: observer of a run of edits followed by undos
  budget,         \* history: edits and failures still allowed by the bounds
  gfx,            \* the pixels: one photo's surfaces, its regions, the settings
  pointer,        \* the UI module's drag and editorActive, and the last gesture
  zip,            \* one batch export: the photos left and the names written
  chosen          \* history: the files handed over last and what was reported

vars == <<photos, photo, activePhotoId, sensitivity, queueRunning, tasks, now,
          ui, op, recent, track, budget, gfx, pointer, zip, chosen>>

\* the variables of the controller and of the UI module
program == <<photos, photo, activePhotoId, sensitivity, queueRunning, tasks,
             now, ui, op, recent, track, budget, pointer, zip, chosen>>

\* the pixels are not looked at
NoGfx == [on |-> FALSE]

\* no batch export is looked at
NoZip == [on |-> FALSE]

\* no files were handed over yet
NoChoice == [by |-> "none", files |-> <<>>, said |-> "none"]

\* drag and editorActive after setupUI; `last` is history: the pointer
\* handler that ran last, where, what hitTest returned and what it called
NoDrag ==
  [active |-> FALSE, mode |-> "null", startX |-> 0, startY |-> 0,
   currentX |-> 0, currentY |-> 0, targetFaceId |-> <<>>,
   origBox |-> [x |-> 0, y |-> 0, width |-> 0, height |-> 0]]
NoGesture ==
  [name |-> "none", x |-> 0, y |-> 0, hit |-> "none", face |-> <<>>,
   called |-> "none"]
InitPointer == [drag |-> NoDrag, editorActive |-> FALSE, last |-> NoGesture]

\* the program state as one value, for the operators that model functions
St == [photos |-> photos, photo |-> photo, activePhotoId |-> activePhotoId,
       sensitivity |-> sensitivity, queueRunning |-> queueRunning,
       tasks |-> tasks, now |-> now, ui |-> ui]

\* A photo object that is in no array and in no continuation can no longer
\* be read or written: it is garbage, and is kept here as one fixed value.
Referenced(S) ==
  {S.photos[i] : i \in 1..Len(S.photos)}
  \cup UNION {{S.tasks[i].pid}
              \cup {S.tasks[i].newPhotos[j] : j \in 1..Len(S.tasks[i].newPhotos)}
              \cup UNION {{S.tasks[i].cont[j].pid}
                          \cup {S.tasks[i].cont[j].items[l] :
                                  l \in 1..Len(S.tasks[i].cont[j].items)} :
                          j \in 1..Len(S.tasks[i].cont)} :
              i \in 1..Len(S.tasks)}

Collected(id) ==
  [id |-> id, file |-> Null, fullCanvas |-> "null", thumbnailDataUrl |-> "null",
   faces |-> <<>>, selectedFaceId |-> NullId, processedCanvas |-> "null",
   undoStack |-> <<>>, redoStack |-> <<>>, status |-> "collected",
   error |-> "null"]

Collect(S) ==
  [id \in DOMAIN S.photo |->
     IF id \in Referenced(S) THEN S.photo[id] ELSE Collected(id)]

Commit(S) ==
  /\ photos' = S.photos
  /\ photo' = Collect(S)
  /\ activePhotoId' = S.activePhotoId
  /\ sensitivity' = S.sensitivity
  /\ queueRunning' = S.queueRunning
  /\ tasks' = S.tasks
  /\ now' = S.now
  /\ ui' = S.ui

\* createPhotoState; file is the place of the file among the valid files of
\* its selection
createPhotoState(id, file) ==
  [id |-> id, file |-> file, fullCanvas |-> "null", thumbnailDataUrl |-> "null",
   faces |-> <<>>, selectedFaceId |-> NullId, processedCanvas |-> "null",
   undoStack |-> <<>>, redoStack |-> <<>>, status |-> "pending",
   error |-> "null"]

\* the UI after setupUI and init
InitUi ==
  [appState |-> "empty", status |-> "hidden", preview |-> Null,
   currentFaces |-> <<>>, currentSelectedId |-> NullId, faceCount |-> 0,
   canUndo |-> FALSE, canRedo |-> FALSE, strip |-> <<>>, slider |-> "medium",
   statusArgs |-> <<>>]

\* ------------------------------------------------------------- UI module
showState(S, st) == [S EXCEPT !.ui.appState = st]
showStatus(S, msg) == [S EXCEPT !.ui.status = msg, !.ui.statusArgs = <<>>]
\* showStatus with a text that holds the numbers a and b
showStatusCounts(S, msg, a, b) ==
  [S EXCEPT !.ui.status = msg, !.ui.statusArgs = <<a, b>>]
hideStatus(S) == [S EXCEPT !.ui.status = "hidden", !.ui.statusArgs = <<>>]
setFaceCount(S, n) == [S EXCEPT !.ui.faceCount = n]
\* renderPreview draws the pixels of the canvas of photo pid
renderPreview(S, pid) == [S EXCEPT !.ui.preview = pid]
renderOverlay(S, faces, sel) ==
  [S EXCEPT !.ui.currentFaces = StripOid(faces), !.ui.currentSelectedId = sel]
\* renderResult draws the processed canvas of photo pid
renderResult(S, pid) == [S EXCEPT !.ui.preview = pid]
setUndoRedoState(S, canUndo, canRedo) ==
  [S EXCEPT !.ui.canUndo = canUndo, !.ui.canRedo = canRedo]
renderThumbnailStrip(S) ==
  [S EXCEPT !.ui.strip = IF Len(S.photos) <= 1 THEN <<>> ELSE S.photos]
resetUI(S) ==
  [S EXCEPT !.ui.appState = "empty", !.ui.status = "hidden",
            !.ui.statusArgs = <<>>,
            !.ui.preview = Null, !.ui.strip = <<>>]

\* ------------------------------------------------------------ controller
\* getActivePhoto: the id of the active photo, Null when there is none
ActiveFound(S) == S.activePhotoId # Null /\ InSeq(S.photos, S.activePhotoId)
\* getActivePhoto also clears an activePhotoId that names no listed photo
getActivePhoto(S) ==
  IF ActiveFound(S) THEN S ELSE [S EXCEPT !.activePhotoId = Null]

updateUndoRedoButtons(S0) ==
  LET S == getActivePhoto(S0)
  IN  IF ActiveFound(S)
      THEN setUndoRedoState(S, Len(S.photo[S.activePhotoId].undoStack) > 0,
                               Len(S.photo[S.activePhotoId].redoStack) > 0)
      ELSE setUndoRedoState(S, FALSE, FALSE)

updatePreview(S0) ==
  LET S == getActivePhoto(S0)
      a == S.activePhotoId
  IN  IF ~ActiveFound(S) THEN S
      ELSE IF S.photo[a].fullCanvas = "null" \/ Len(S.photo[a].faces) = 0 THEN S
      ELSE LET S1 == [S EXCEPT !.photo[a].processedCanvas = "canvas"]
               S2 == renderResult(S1, a)
           IN  renderOverlay(S2, S2.photo[a].faces, S2.photo[a].selectedFaceId)

\* the copy of the face list taken by pushUndo, handleUndo and handleRedo
Snapshot(p) == [faces |-> StripOid(p.faces), selectedFaceId |-> p.selectedFaceId]

\* pushUndo onto one history that all photos share
pushUndoShared(S, pid) ==
  LET snap == Snapshot(S.photo[pid])
      S1 == [S EXCEPT !.photo =
               [id \in DOMAIN S.photo |->
                  [S.photo[id] EXCEPT !.undoStack = Append(@, snap),
                                      !.redoStack = <<>>]]]
  IN  S1

\* pushUndo without the cap on the length of the stack
pushUndoNoCap(S, pid) ==
  LET p == S.photo[pid]
      S1 == [S EXCEPT !.photo[pid].undoStack = Append(p.undoStack, Snapshot(p)),
                      !.photo[pid].redoStack = <<>>]
  IN  updateUndoRedoButtons(S1)

\* pushUndo that keeps the redoStack
pushUndoKeepRedo(S, pid) ==
  LET p == S.photo[pid]
      pushed == Append(p.undoStack, Snapshot(p))
      capped == IF Len(pushed) > MAX_UNDO THEN Tail(pushed) ELSE pushed
  IN  updateUndoRedoButtons([S EXCEPT !.photo[pid].undoStack = capped])

pushUndo(S, pid) ==
  LET p == S.photo[pid]
      pushed == Append(p.undoStack, Snapshot(p))
      capped == IF Len(pushed) > MAX_UNDO THEN Tail(pushed) ELSE pushed
      S1 == [S EXCEPT !.photo[pid].undoStack = capped,
                      !.photo[pid].redoStack = <<>>]
  IN  updateUndoRedoButtons(S1)

\* ------------------------------------------------- canvas interaction
Contains(b, x, y) ==
  x >= b.x /\ x <= b.x + b.width /\ y >= b.y /\ y <= b.y + b.height

RECURSIVE FindFace(_, _, _, _)
\* photo.faces.find(box contains the point): index of the first match, 0 if none
FindFace(fs, x, y, i) ==
  IF i > Len(fs) THEN 0
  ELSE IF Contains(fs[i].box, x, y) THEN i ELSE FindFace(fs, x, y, i + 1)

\* element of index k (from 0) of the sizes sorted in ascending order
KthSmallest(sizes, k) ==
  CHOOSE v \in {sizes[i] : i \in 1..Len(sizes)} :
    /\ Cardinality({i \in 1..Len(sizes) : sizes[i] < v}) <= k
    /\ Cardinality({i \in 1..Len(sizes) : sizes[i] <= v}) > k

\* getDefaultFaceSize, for a photo that has a canvas
getDefaultFaceSize(p) ==
  LET detectedFaces == SelectSeq(p.faces, LAMBDA f : ~f.manual)
      sizes == [i \in 1..Len(detectedFaces) |->
                  Max(detectedFaces[i].box.width, detectedFaces[i].box.height)]
  IN  IF Len(detectedFaces) = 0
      THEN (Min(CanvasSize.width, CanvasSize.height) * MANUAL_REGION_RATIO) \div 100
      ELSE KthSmallest(sizes, Len(sizes) \div 2)

\* oids in use for photo pid: its face list and the captured manualFaces
TaskOids(S, pid) ==
  UNION {OidsOf(S.tasks[i].manualFaces) :
           i \in {j \in 1..Len(S.tasks) : S.tasks[j].pid = pid}}
UsedOids(S, pid) == OidsOf(S.photo[pid].faces) \cup TaskOids(S, pid)

newManualFace(S, pid, box, t) ==
  [id |-> ManualId(t), box |-> box, score |-> 100, landmarks |-> "null",
   manual |-> TRUE, oid |-> NthFree(UsedOids(S, pid), 1)]

\* face.box = newBox on the object at index idx of the face list of photo
\* pid; the manualFaces of a re-detection in flight that holds the same
\* object sees the new box
setFaceBox(S, pid, idx, newBox) ==
  LET o == S.photo[pid].faces[idx].oid
      inTask(t) ==
        IF t.pid = pid
        THEN [t EXCEPT !.manualFaces =
                [i \in 1..Len(t.manualFaces) |->
                   IF t.manualFaces[i].oid = o
                   THEN [t.manualFaces[i] EXCEPT !.box = newBox]
                   ELSE t.manualFaces[i]]]
        ELSE t
  IN  [S EXCEPT !.photo[pid].faces[idx].box = newBox,
                !.tasks = [i \in 1..Len(S.tasks) |-> inTask(S.tasks[i])]]

handleCanvasClick(S0, x, y, t) ==
  LET S == getActivePhoto(S0)
      a == S.activePhotoId
  IN  IF ~ActiveFound(S) THEN S
      ELSE IF S.photo[a].fullCanvas = "null" THEN S
      ELSE
        LET p == S.photo[a]
            hit == FindFace(p.faces, x, y, 1)
            S1 == IF hit > 0
                  THEN [S EXCEPT !.photo[a].selectedFaceId = p.faces[hit].id]
                  ELSE IF p.selectedFaceId # NullId
                  THEN [S EXCEPT !.photo[a].selectedFaceId = NullId]
                  ELSE
                    LET Sp == pushUndo(S, a)
                        size == getDefaultFaceSize(p)
                        newFace == newManualFace(Sp, a,
                                     Box(Max(0, x - size \div 2),
                                         Max(0, y - size \div 2), size, size), t)
                    IN  [Sp EXCEPT !.photo[a].faces = Append(@, newFace),
                                   !.photo[a].selectedFaceId = newFace.id,
                                   !.now = t]
            S2 == renderOverlay(S1, S1.photo[a].faces, S1.photo[a].selectedFaceId)
            S3 == setFaceCount(S2, Len(S2.photo[a].faces))
        IN  updatePreview(S3)

handleFaceDrawn(S0, box, t) ==
  LET S == getActivePhoto(S0)
      a == S.activePhotoId
  IN  IF ~ActiveFound(S) THEN S
      ELSE IF S.photo[a].fullCanvas = "null" THEN S
      ELSE
        LET Sp == pushUndo(S, a)
            newFace == newManualFace(Sp, a, box, t)
            S1 == [Sp EXCEPT !.photo[a].faces = Append(@, newFace),
                             !.photo[a].selectedFaceId = newFace.id,
                             !.now = t]
            S2 == renderOverlay(S1, S1.photo[a].faces, S1.photo[a].selectedFaceId)
            S3 == setFaceCount(S2, Len(S2.photo[a].faces))
        IN  updatePreview(S3)

handleFaceMoved(S0, faceId, newBox) ==
  LET S == getActivePhoto(S0)
      a == S.activePhotoId
  IN  IF ~ActiveFound(S) THEN S
      ELSE
        LET idx == IndexOfFirst(S.photo[a].faces, faceId, 1)
        IN  IF idx = 0 THEN S
            ELSE
              LET Sp == pushUndo(S, a)
                  S1 == setFaceBox(Sp, a, idx, newBox)
                  S2 == renderOverlay(S1, S1.photo[a].faces,
                                      S1.photo[a].selectedFaceId)
              IN  updatePreview(S2)

handleFaceResized(S0, faceId, newBox) ==
  LET S == getActivePhoto(S0)
      a == S.activePhotoId
  IN  IF ~ActiveFound(S) THEN S
      ELSE
        LET idx == IndexOfFirst(S.photo[a].faces, faceId, 1)
        IN  IF idx = 0 THEN S
            ELSE
              LET Sp == pushUndo(S, a)
                  S1 == setFaceBox(Sp, a, idx, newBox)
                  S2 == renderOverlay(S1, S1.photo[a].faces,
                                      S1.photo[a].selectedFaceId)
              IN  updatePreview(S2)

handleFaceRemoved(S0) ==
  LET S == getActivePhoto(S0)
      a == S.activePhotoId
  IN  IF ~ActiveFound(S) THEN S
      ELSE IF S.photo[a].selectedFaceId = NullId THEN S
      ELSE
        LET idx == IndexOfFirst(S.photo[a].faces, S.photo[a].selectedFaceId, 1)
        IN  IF idx = 0 THEN S
            ELSE
              LET Sp == pushUndo(S, a)
                  S1 == [Sp EXCEPT !.photo[a].faces = RemoveAt(@, idx),
                                   !.photo[a].selectedFaceId = NullId]
                  S2 == renderOverlay(S1, S1.photo[a].faces,
                                      S1.photo[a].selectedFaceId)
                  S3 == setFaceCount(S2, Len(S2.photo[a].faces))
              IN  updatePreview(S3)

\* ------------------------------------------------------------ undo / redo
\* handleUndo that pushes the snapshot it restores, not the current state,
\* onto the redo stack
handleUndoRedoPrev(S0) ==
  LET S == getActivePhoto(S0)
      a == S.activePhotoId
  IN  IF ~ActiveFound(S) THEN S
      ELSE IF Len(S.photo[a].undoStack) = 0 THEN S
      ELSE
        LET p == S.photo[a]
            prev == p.undoStack[Len(p.undoStack)]
            S1 == [S EXCEPT
                     !.photo[a].redoStack = Append(@, prev),
                     !.photo[a].undoStack = SubSeq(@, 1, Len(@) - 1),
                     !.photo[a].faces = WithOids(prev.faces, TaskOids(S, a)),
                     !.photo[a].selectedFaceId = prev.selectedFaceId]
            S2 == renderOverlay(S1, S1.photo[a].faces, S1.photo[a].selectedFaceId)
            S3 == setFaceCount(S2, Len(S2.photo[a].faces))
        IN  updateUndoRedoButtons(updatePreview(S3))

handleUndo(S0) ==
  LET S == getActivePhoto(S0)
      a == S.activePhotoId
  IN  IF ~ActiveFound(S) THEN S
      ELSE IF Len(S.photo[a].undoStack) = 0 THEN S
      ELSE
        LET p == S.photo[a]
            prev == p.undoStack[Len(p.undoStack)]
            S1 == [S EXCEPT
                     !.photo[a].redoStack = Append(@, Snapshot(p)),
                     !.photo[a].undoStack = SubSeq(@, 1, Len(@) - 1),
                     !.photo[a].faces = WithOids(prev.faces, TaskOids(S, a)),
                     !.photo[a].selectedFaceId = prev.selectedFaceId]
            S2 == renderOverlay(S1, S1.photo[a].faces, S1.photo[a].selectedFaceId)
            S3 == setFaceCount(S2, Len(S2.photo[a].faces))
        IN  updateUndoRedoButtons(updatePreview(S3))

handleRedo(S0) ==
  LET S == getActivePhoto(S0)
      a == S.activePhotoId
  IN  IF ~ActiveFound(S) THEN S
      ELSE IF Len(S.photo[a].redoStack) = 0 THEN S
      ELSE
        LET p == S.photo[a]
            next == p.redoStack[Len(p.redoStack)]
            S1 == [S EXCEPT
                     !.photo[a].undoStack = Append(@, Snapshot(p)),
                     !.photo[a].redoStack = SubSeq(@, 1, Len(@) - 1),
                     !.photo[a].faces = WithOids(next.faces, TaskOids(S, a)),
                     !.photo[a].selectedFaceId = next.selectedFaceId]
            S2 == renderOverlay(S1, S1.photo[a].faces, S1.photo[a].selectedFaceId)
            S3 == setFaceCount(S2, Len(S2.photo[a].faces))
        IN  updateUndoRedoButtons(updatePreview(S3))

\* ------------------------------------------------------- operations awaited
\* kind: "thumb" (Promise.all of generateThumbnail), "load" (loadAndDetect),
\* "redetect", "blob" (exportAsBlob), "zip" (zip.generateAsync).
\* cont: the callers that resume, innermost first, when the operation ends.
Task(kind, pid, isActive, sens, manualFaces, newPhotos, cont) ==
  [kind |-> kind, pid |-> pid, isActive |-> isActive, sens |-> sens,
   manualFaces |-> manualFaces, newPhotos |-> newPhotos, cont |-> cont]

\* fn: "switch" (switchToPhoto after its await), "files" (handleFilesSelected
\* after its await of switchToPhoto), "queue" (the loop of processQueue),
\* "dlall" (the loop of handleDownloadAll).  i is the next index of the
\* array iterator; live says the iterated array is still state.photos,
\* otherwise items is the array that handleNewPhoto replaced.  files is the
\* content of the JSZip object of handleDownloadAll: one entry for each call
\* of zip.file, with the photo and the blob it was given.
Frame(fn, pid, i, live, items, completed, total) ==
  [fn |-> fn, pid |-> pid, i |-> i, live |-> live, items |-> items,
   completed |-> completed, total |-> total, files |-> <<>>]

RemoveTask(S, k) == [S EXCEPT !.tasks = RemoveAt(@, k)]

\* ------------------------------------------------------------ evictCanvases
\* evictCanvases that does not leave the active photo out of the candidates
evictCanvasesAnyPhoto(S) ==
  LET loaded == SelectSeq(S.photos, LAMBDA id : S.photo[id].fullCanvas # "null")
      maxInactive == Max(0, MAX_LOADED_CANVASES - 1)
      toEvict == IF Len(loaded) > maxInactive
                 THEN {loaded[i] : i \in 1..(Len(loaded) - maxInactive)}
                 ELSE {}
  IN  [S EXCEPT !.photo =
         [id \in DOMAIN S.photo |->
            IF id \in toEvict
            THEN [S.photo[id] EXCEPT !.fullCanvas = "null",
                                     !.processedCanvas = "null"]
            ELSE S.photo[id]]]

\* evictCanvases that sends the photos it evicts back to the queue
evictCanvasesToPending(S) ==
  LET loaded == SelectSeq(S.photos,
                  LAMBDA id : S.photo[id].fullCanvas # "null"
                              /\ id # S.activePhotoId)
      maxInactive == Max(0, MAX_LOADED_CANVASES - 1)
      toEvict == IF Len(loaded) > maxInactive
                 THEN {loaded[i] : i \in 1..(Len(loaded) - maxInactive)}
                 ELSE {}
  IN  [S EXCEPT !.photo =
         [id \in DOMAIN S.photo |->
            IF id \in toEvict
            THEN [S.photo[id] EXCEPT !.fullCanvas = "null",
                                     !.processedCanvas = "null",
                                     !.status = "pending"]
            ELSE S.photo[id]]]

evictCanvases(S) ==
  LET loaded == SelectSeq(S.photos,
                  LAMBDA id : S.photo[id].fullCanvas # "null"
                              /\ id # S.activePhotoId)
      maxInactive == Max(0, MAX_LOADED_CANVASES - 1)
      toEvict == IF Len(loaded) > maxInactive
                 THEN {loaded[i] : i \in 1..(Len(loaded) - maxInactive)}
                 ELSE {}
  IN  [S EXCEPT !.photo =
         [id \in DOMAIN S.photo |->
            IF id \in toEvict
            THEN [S.photo[id] EXCEPT !.fullCanvas = "null",
                                     !.processedCanvas = "null"]
            ELSE S.photo[id]]]

\* ---------------------------------------------------------- photo pipeline
RECURSIVE Resume(_, _)
RECURSIVE processPhoto(_, _, _)
RECURSIVE queueLoop(_, _)
RECURSIVE dlLoop(_, _)

\* processPhoto without its return for a detected photo that has its surface
processPhotoNoGuard(S, pid, cont) ==
  IF ~InSeq(S.photos, pid) THEN Resume(S, cont)
  ELSE
    LET S1 == renderThumbnailStrip([S EXCEPT !.photo[pid].status = "loading"])
        isActive == pid = S1.activePhotoId
        S2 == IF isActive THEN showStatus(S1, "progress") ELSE S1
    IN  [S2 EXCEPT !.tasks =
           Append(@, Task("load", pid, isActive, S2.sensitivity, <<>>, <<>>, cont))]

\* processPhoto up to its await of loadAndDetect; cont resumes when
\* processPhoto returns
processPhoto(S, pid, cont) ==
  IF ~InSeq(S.photos, pid) THEN Resume(S, cont)
  ELSE IF S.photo[pid].status = "detected" /\ S.photo[pid].fullCanvas # "null"
  THEN Resume(S, cont)
  ELSE
    LET S1 == renderThumbnailStrip([S EXCEPT !.photo[pid].status = "loading"])
        isActive == pid = S1.activePhotoId
        \* loadAndDetect reports its first progress message before it awaits
        S2 == IF isActive THEN showStatus(S1, "progress") ELSE S1
    IN  [S2 EXCEPT !.tasks =
           Append(@, Task("load", pid, isActive, S2.sensitivity, <<>>, <<>>, cont))]

\* processPhoto whose catch marks every photo that is loading, not only the
\* photo whose load threw
processPhotoDoneAllLoading(S, t, ok) ==
  IF ok THEN S
  ELSE renderThumbnailStrip(
         [S EXCEPT !.photo =
            [id \in DOMAIN S.photo |->
               IF id = t.pid \/ S.photo[id].status = "loading"
               THEN [S.photo[id] EXCEPT !.status = "error", !.error = "message"]
               ELSE S.photo[id]]])

\* processPhoto after loadAndDetect returned, up to its call of evictCanvases
processPhotoLoaded(S, t) ==
  LET pid == t.pid
      S0 == IF t.isActive THEN showStatus(S, "progress") ELSE S
      faces == WithOids(detectFaces(pid, t.sens), TaskOids(S0, pid))
      S1 == [S0 EXCEPT !.photo[pid].fullCanvas = "canvas",
                       !.photo[pid].faces = faces,
                       !.photo[pid].status = "detected"]
      S2 == renderThumbnailStrip(S1)
  IN  IF t.isActive
      THEN
        LET A1 == showState(S2, "editing")
            A2 == renderPreview(A1, pid)
            A3 == renderOverlay(A2, faces, NullId)
            A4 == setFaceCount(A3, Len(faces))
        IN  IF Len(faces) = 0
            THEN showStatus(A4, "noFaces")
            ELSE hideStatus(updatePreview(A4))
      ELSE S2

\* processPhoto after loadAndDetect returned (ok) or threw (~ok)
processPhotoDone(S, t, ok) ==
  LET pid == t.pid
  IN  IF ok
      THEN evictCanvases(processPhotoLoaded(S, t))
      ELSE
        LET S1 == [S EXCEPT !.photo[pid].status = "error",
                            !.photo[pid].error = "message"]
            S2 == renderThumbnailStrip(S1)
        IN  IF pid = S2.activePhotoId
            THEN showStatus(S2, "failedProcess")
            ELSE S2

\* switchToPhoto from showState("editing") to its end
switchTail(S, pid) ==
  LET p == S.photo[pid]
      S1 == showState(S, "editing")
      S2 == renderPreview(S1, pid)
      S3 == renderOverlay(S2, p.faces, p.selectedFaceId)
      S4 == setFaceCount(S3, Len(p.faces))
      S5 == updateUndoRedoButtons(S4)
  IN  IF Len(p.faces) > 0
      THEN hideStatus(updatePreview(S5))
      ELSE showStatus(S5, "noFaces")

\* the for loop of processQueue, from the next step of its iterator
queueLoop(S, fr) ==
  LET arr == IF fr.live THEN S.photos ELSE fr.items
  IN  IF fr.i > Len(arr)
      THEN [S EXCEPT !.queueRunning = FALSE]
      ELSE
        LET pid == arr[fr.i]
            nxt == [fr EXCEPT !.i = fr.i + 1]
        IN  IF S.photo[pid].status = "pending"
            THEN processPhoto(S, pid, <<nxt>>)
            ELSE queueLoop(S, nxt)

\* processQueue without its test of queueRunning
processQueueNoGuard(S) ==
  queueLoop([S EXCEPT !.queueRunning = TRUE],
            Frame("queue", Null, 1, TRUE, <<>>, 0, 0))

processQueue(S) ==
  IF S.queueRunning THEN S
  ELSE queueLoop([S EXCEPT !.queueRunning = TRUE],
                 Frame("queue", Null, 1, TRUE, <<>>, 0, 0))

\* handleDownloadAll from processImage to its await of exportAsBlob
dlRender(S, pid, fr) ==
  [S EXCEPT !.tasks =
     Append(@, Task("blob", pid, FALSE, S.sensitivity, <<>>, <<>>,
                    <<[fr EXCEPT !.pid = pid]>>))]

\* the for loop of handleDownloadAll, from the next step of its iterator
dlLoop(S, fr) ==
  LET arr == IF fr.live THEN S.photos ELSE fr.items
  IN  IF fr.i > Len(arr)
      THEN [showStatus(S, "creatingZip") EXCEPT !.tasks =
              Append(@, Task("zip", Null, FALSE, S.sensitivity, <<>>, <<>>,
                             <<fr>>))]
      ELSE
        LET pid == arr[fr.i]
            nxt == [fr EXCEPT !.i = fr.i + 1, !.pid = pid]
        IN  IF S.photo[pid].fullCanvas = "null"
            THEN processPhoto(S, pid, <<nxt>>)
            ELSE dlRender(S, pid, nxt)

\* handleDownloadAll after its await of processPhoto
dlAfterLoad(S, fr) ==
  IF S.photo[fr.pid].fullCanvas = "null"
  THEN dlLoop(S, [fr EXCEPT !.completed = fr.completed + 1])
  ELSE dlRender(S, fr.pid, fr)

\* the callers of an async function that returned, innermost first
Resume(S, cont) ==
  IF Len(cont) = 0 THEN S
  ELSE
    LET fr == Head(cont)
        rest == Tail(cont)
    IN  CASE fr.fn = "switch" ->
               IF S.photo[fr.pid].status = "error"
                  \/ S.photo[fr.pid].fullCanvas = "null"
               THEN Resume(showStatus(S, "failedLoad"), rest)
               ELSE Resume(switchTail(S, fr.pid), rest)
          [] fr.fn = "files" -> processQueue(S)
          [] fr.fn = "queue" -> queueLoop(S, fr)
          [] fr.fn = "dlall" -> dlAfterLoad(S, fr)

\* switchToPhoto; cont resumes when it returns
switchToPhoto(S, photoId, cont) ==
  IF ~InSeq(S.photos, photoId) THEN Resume(S, cont)
  ELSE
    LET S1 == renderThumbnailStrip([S EXCEPT !.activePhotoId = photoId])
        p == S1.photo[photoId]
    IN  IF p.status = "pending" \/ p.fullCanvas = "null"
        THEN processPhoto(showState(S1, "loading"), photoId,
                          <<Frame("switch", photoId, 0, TRUE, <<>>, 0, 0)>> \o cont)
        ELSE Resume(switchTail(S1, photoId), cont)

handlePhotoSwitch(S, photoId) ==
  IF photoId = S.activePhotoId THEN S ELSE switchToPhoto(S, photoId, <<>>)

handlePhotoRemoved(S, photoId) ==
  LET idx == IndexIn(S.photos, photoId, 1)
  IN  IF idx = 0 THEN S
      ELSE
        LET S1 == [S EXCEPT !.photo[photoId].fullCanvas = "null",
                            !.photo[photoId].processedCanvas = "null",
                            !.photo[photoId].file = Null,
                            !.photos = RemoveAt(@, idx)]
        IN  IF Len(S1.photos) = 0
            THEN resetUI([S1 EXCEPT !.activePhotoId = Null])
            ELSE IF photoId = S1.activePhotoId
            THEN switchToPhoto(S1, S1.photos[Min(idx, Len(S1.photos))], <<>>)
            ELSE renderThumbnailStrip(S1)

\* handleFilesSelected without the photo limit
handleFilesSelectedNoLimit(S, n) ==
  LET first == Len(S.photo) + 1
      newPhotos == [i \in 1..n |-> first + i - 1]
  IN  [S EXCEPT
         !.photo = @ \o [i \in 1..n |-> createPhotoState(first + i - 1, i)],
         !.photos = @ \o newPhotos,
         !.tasks = Append(@, Task("thumb", Null, FALSE, S.sensitivity,
                                  <<>>, newPhotos, <<>>))]

\* handleFilesSelected with n valid image files, up to its await of the
\* thumbnails
handleFilesSelected(S, n) ==
  LET slotsAvailable == MAX_PHOTOS - Len(S.photos)
  IN  IF n = 0 THEN showStatus(S, "noValidFiles")
      ELSE IF slotsAvailable <= 0 THEN showStatus(S, "maxPhotos")
      ELSE
        LET k == Min(n, slotsAvailable)
            S1 == IF k < n THEN showStatusCounts(S, "addedPartial", k, n) ELSE S
            first == Len(S1.photo) + 1
            newPhotos == [i \in 1..k |-> first + i - 1]
        IN  [S1 EXCEPT
               !.photo = @ \o [i \in 1..k |-> createPhotoState(first + i - 1, i)],
               !.photos = @ \o newPhotos,
               !.tasks = Append(@, Task("thumb", Null, FALSE, S1.sensitivity,
                                        <<>>, newPhotos, <<>>))]

\* handleFilesSelected after the thumbnails
filesAfterThumbs(S, t) ==
  LET S1 == [S EXCEPT !.photo =
               [id \in DOMAIN S.photo |->
                  IF InSeq(t.newPhotos, id)
                  THEN [S.photo[id] EXCEPT !.thumbnailDataUrl = "data"]
                  ELSE S.photo[id]]]
      S2 == IF S1.activePhotoId = Null
            THEN [S1 EXCEPT !.activePhotoId = t.newPhotos[1]]
            ELSE S1
      S3 == renderThumbnailStrip(S2)
  IN  switchToPhoto(S3, S3.activePhotoId,
                    <<Frame("files", Null, 0, TRUE, <<>>, 0, 0)>>)

\* handleSensitivityChange up to its await of redetect
handleSensitivityChange(S0, sens) ==
  LET S == getActivePhoto(S0)
      a == S.activePhotoId
  IN  IF ~ActiveFound(S) THEN S
      ELSE IF S.photo[a].fullCanvas = "null" THEN S
      ELSE
        LET S1 == showStatus([S EXCEPT !.sensitivity = sens], "redetecting")
            manualFaces == SelectSeq(S1.photo[a].faces, LAMBDA f : f.manual)
            \* redetect reports progress before it awaits
            S2 == showStatus(S1, "progress")
        IN  [S2 EXCEPT !.tasks =
               Append(@, Task("redetect", a, TRUE, sens, manualFaces, <<>>, <<>>))]

\* handleSensitivityChange after redetect returned (ok) or threw (~ok)
redetectDone(S, t, ok) ==
  LET pid == t.pid
  IN  IF ok
      THEN
        LET S0 == showStatus(S, "progress")
            detected == WithOids(detectFaces(pid, t.sens), TaskOids(S0, pid))
            S1 == [S0 EXCEPT !.photo[pid].faces = detected \o t.manualFaces]
            S2 == renderOverlay(S1, S1.photo[pid].faces,
                                S1.photo[pid].selectedFaceId)
            S3 == setFaceCount(S2, Len(S2.photo[pid].faces))
            S4 == renderThumbnailStrip(S3)
        IN  hideStatus(updatePreview(S4))
      ELSE showStatus(S, "detectionFailed")

handleNewPhoto(S) ==
  LET freeze(fr) == IF fr.live
                    THEN [fr EXCEPT !.live = FALSE, !.items = S.photos]
                    ELSE fr
      S1 == [S EXCEPT
               !.tasks = [i \in 1..Len(S.tasks) |->
                            [S.tasks[i] EXCEPT !.cont =
                               [j \in 1..Len(S.tasks[i].cont) |->
                                  freeze(S.tasks[i].cont[j])]]],
               !.photos = <<>>,
               !.activePhotoId = Null]
  IN  resetUI(S1)

handleDownloadAll(S) ==
  IF Len(S.photos) = 0 THEN S
  ELSE dlLoop(showStatus(S, "zipProgress"),
              Frame("dlall", Null, 1, TRUE, <<>>, 0, Len(S.photos)))

\* what the export of one surface gives: exportAsBlob resolves with a blob,
\* or with null (toBlob could not encode the surface), or processImage or
\* toBlob threw
ExportOutcomes == {"blob", "null", "threw"}

\* the step handed nothing to the browser as a download
NoDownload == [made |-> FALSE, name |-> "none", files |-> <<>>]

\* downloadBlob: the browser saves a file of that name; files is what the
\* blob holds
downloadBlob(name, files) == [made |-> TRUE, name |-> name, files |-> files]

\* handleDownloadAll after exportAsBlob: the loop has no try, an exception
\* ends the handler; a null blob goes to zip.file like any other
blobDone(S, t, out) ==
  LET fr == t.cont[1]
  IN  IF out = "threw" THEN S
      ELSE dlLoop(showStatus(S, "zipProgress"),
                  [fr EXCEPT !.completed = fr.completed + 1,
                             !.files = Append(@, [pid |-> fr.pid, blob |-> out])])

\* handleDownloadAll after zip.generateAsync returned (ok) or threw (~ok);
\* the text of the success status holds total
zipDone(S, t, ok) ==
  LET fr == t.cont[1]
  IN  IF ok
      THEN [S EXCEPT !.ui.status = "downloaded", !.ui.statusArgs = <<fr.total>>]
      ELSE showStatus(S, "zipFailed")

\* what zipDone hands to downloadBlob
zipDownload(t, ok) ==
  IF ok THEN downloadBlob("faceblock_photos.zip", t.cont[1].files)
  ELSE NoDownload

\* handleDownload up to its await of exportImage; rendered says that
\* processImage returned, otherwise it threw and the catch reports it
handleDownload(S0, rendered) ==
  LET S == getActivePhoto(S0)
      a == S.activePhotoId
  IN  IF ~ActiveFound(S) THEN showStatus(S, "noFaces")
      ELSE IF S.photo[a].fullCanvas = "null" \/ Len(S.photo[a].faces) = 0
      THEN showStatus(S, "noFaces")
      ELSE IF ~rendered THEN showStatus(showStatus(S, "preparing"), "exportFailed")
      ELSE [showStatus(S, "preparing") EXCEPT !.tasks =
              Append(@, Task("export", a, TRUE, S.sensitivity, <<>>, <<>>, <<>>))]

\* handleDownload after exportImage: with a blob exportImage calls
\* downloadBlob and returns the file name; with null URL.createObjectURL
\* throws inside downloadBlob; every exception reaches the catch
exportDone(S, t, out) ==
  IF out = "blob" THEN showStatus(S, "saved")
  ELSE showStatus(S, "exportFailed")

\* what exportImage hands to the browser: with null instead of a blob
\* downloadBlob throws before it creates the link
exportDownload(t, out) ==
  IF out = "blob"
  THEN downloadBlob("faceblock_photo", <<[pid |-> t.pid, blob |-> out]>>)
  ELSE NoDownload

\* ------------------------------------------------------------------ inputs
\* points clicked: inside the clear face, inside the small face, on nothing
ClickPoints == {<<80, 80>>, <<220, 60>>, <<300, 300>>}
\* boxes drawn (the UI reports a drawn box wider and higher than 10)
DrawBoxes == {Box(240, 240, 100, 100)}
\* pointer travel of a move and of a resize
MoveDeltas == {<<20, 0>>, <<-20, 0>>}
ResizeDeltas == {<<20, 20>>}
\* Date.now(): the value of the previous call or a later one
Clock == {t \in {now, now + 1} : t >= 1 /\ t <= MaxClock}

\* ----------------------------------------------------------------- history
NoTask == Task("none", Null, FALSE, "medium", <<>>, <<>>, <<>>)
NoSnapshot == [faces |-> <<>>, selectedFaceId |-> NullId]
Op(name, kind, pid, ok, before, t) ==
  [name |-> name, kind |-> kind, pid |-> pid, ok |-> ok, before |-> before,
   task |-> [t EXCEPT !.cont = <<>>], download |-> NoDownload]
Off == [on |-> FALSE, pid |-> Null, base |-> <<>>, n |-> 0, k |-> 0]

\* the observer: it may start at any edit, counts the edits that follow
\* one another on the same photo (selections in between do not count), then
\* the handleUndo calls that follow, and stops at anything else
TrackNext ==
  LET P == op'.pid
  IN  IF ~budget.observe THEN {Off}
      ELSE IF op'.kind = "edit"
      THEN IF track.on /\ track.pid = P /\ track.k = 0
           THEN {[track EXCEPT !.n = @ + 1]}
           ELSE {Off, [on |-> TRUE, pid |-> P,
                       base |-> StripOid(photo[P].faces), n |-> 1, k |-> 0]}
      ELSE IF op'.kind = "select" THEN {track}
      ELSE IF op'.kind = "undo" /\ track.on /\ track.pid = P
              /\ track.k < track.n
      THEN {[track EXCEPT !.k = @ + 1]}
      ELSE {Off}

RecentNext ==
  IF ~budget.recency THEN recent ELSE
  LET moved == IF activePhotoId' # activePhotoId /\ activePhotoId' # Null
               THEN SelectSeq(recent, LAMBDA id : id # activePhotoId')
                    \o <<activePhotoId'>>
               ELSE recent
  IN  SelectSeq(moved, LAMBDA id : InSeq(photos', id))

\* one step: the program state, then the history
StepAll(S2, o, b, P2, C2) ==
  /\ Commit(S2)
  /\ op' = o
  /\ budget' = b
  /\ track' \in TrackNext
  /\ recent' = RecentNext
  /\ gfx' = gfx
  /\ zip' = zip
  /\ pointer' = P2
  /\ chosen' = C2

\* a step of a handler of the canvas
StepWith(S2, o, b, P2) == StepAll(S2, o, b, P2, chosen)

\* a step of a handler that does not touch the drag
Step(S2, o, b) == StepWith(S2, o, b, pointer)

Failed == [budget EXCEPT !.fails = @ - 1]

\* ----------------------------------------------------------------- actions
FilesSelected ==
  \E n \in 1..MaxSelect :
    /\ n <= budget.files
    /\ Len(tasks) < budget.tasks
    /\ Step(handleFilesSelected(St, n),
            Op("handleFilesSelected", "other", Null, TRUE, NoSnapshot, NoTask),
            [budget EXCEPT !.files = @ - n])

ThumbnailsDone ==
  \E k \in 1..Len(tasks) :
    /\ tasks[k].kind = "thumb"
    /\ Step(filesAfterThumbs(RemoveTask(St, k), tasks[k]),
            Op("thumbnailsDone", "other", Null, TRUE, NoSnapshot, tasks[k]),
            budget)

LoadDone ==
  \E k \in 1..Len(tasks), ok \in BOOLEAN :
    /\ tasks[k].kind = "load"
    /\ ok \/ budget.fails > 0
    /\ Step(Resume(processPhotoDone(RemoveTask(St, k), tasks[k], ok),
                   tasks[k].cont),
            Op("loadDone", "other", tasks[k].pid, ok,
               Snapshot(photo[tasks[k].pid]), tasks[k]),
            IF ok THEN budget ELSE Failed)

RedetectDone ==
  \E k \in 1..Len(tasks), ok \in BOOLEAN :
    /\ tasks[k].kind = "redetect"
    /\ ok \/ budget.fails > 0
    /\ Step(redetectDone(RemoveTask(St, k), tasks[k], ok),
            Op("redetectDone", "other", tasks[k].pid, ok,
               Snapshot(photo[tasks[k].pid]), tasks[k]),
            IF ok THEN budget ELSE Failed)

\* the export of one surface of the batch ended; the step is marked
\* "escaped" when its exception left handleDownloadAll
BlobDone ==
  \E k \in 1..Len(tasks), out \in ExportOutcomes :
    /\ tasks[k].kind = "blob"
    /\ out = "blob" \/ budget.fails > 0
    /\ Step(blobDone(RemoveTask(St, k), tasks[k], out),
            Op("blobDone", IF out = "threw" THEN "escaped" ELSE "other",
               tasks[k].pid, out = "blob", NoSnapshot, tasks[k]),
            IF out = "blob" THEN budget ELSE Failed)

\* a click on the download button
DownloadClick ==
  \E rendered \in BOOLEAN :
    /\ budget.exports > 0
    \* processImage can throw only when the handler calls it
    /\ \/ rendered
       \/ budget.fails > 0 /\ Len(handleDownload(St, TRUE).tasks) > Len(tasks)
    /\ LET S2 == handleDownload(St, rendered)
       IN  /\ Len(S2.tasks) <= budget.tasks
           /\ Step(S2, Op("handleDownload",
                          IF rendered THEN "other" ELSE "caught",
                          activePhotoId, rendered, NoSnapshot, NoTask),
                   [budget EXCEPT !.exports = @ - 1,
                                  !.fails = IF rendered THEN @ ELSE @ - 1])

ExportDone ==
  \E k \in 1..Len(tasks), out \in ExportOutcomes :
    /\ tasks[k].kind = "export"
    /\ out = "blob" \/ budget.fails > 0
    /\ Step(exportDone(RemoveTask(St, k), tasks[k], out),
            [Op("exportDone", IF out = "blob" THEN "other" ELSE "caught",
                tasks[k].pid, out = "blob", NoSnapshot, tasks[k])
               EXCEPT !.download = exportDownload(tasks[k], out)],
            IF out = "blob" THEN budget ELSE Failed)

ZipDone ==
  \E k \in 1..Len(tasks), ok \in BOOLEAN :
    /\ tasks[k].kind = "zip"
    /\ ok \/ budget.fails > 0
    /\ Step(zipDone(RemoveTask(St, k), tasks[k], ok),
            [Op("zipDone", "other", Null, ok, NoSnapshot, tasks[k])
               EXCEPT !.download = zipDownload(tasks[k], ok)],
            IF ok THEN budget ELSE Failed)

\* a click on a thumbnail of the strip
PhotoSwitch ==
  \E i \in 1..Len(ui.strip) :
    LET S2 == handlePhotoSwitch(St, ui.strip[i])
    IN  /\ S2 # St
        /\ Len(S2.tasks) <= budget.tasks
        /\ Step(S2, Op("handlePhotoSwitch", "other", ui.strip[i], TRUE,
                       NoSnapshot, NoTask), budget)

\* a click on the remove button of a thumbnail of the strip
PhotoRemoved ==
  \E i \in 1..Len(ui.strip) :
    LET S2 == handlePhotoRemoved(St, ui.strip[i])
    IN  /\ S2 # St
        /\ Len(S2.tasks) <= budget.tasks
        /\ Step(S2, Op("handlePhotoRemoved", "other", ui.strip[i], TRUE,
                       NoSnapshot, NoTask), budget)

NewPhoto ==
  /\ Len(photos) > 0
  /\ Step(handleNewPhoto(St),
          Op("handleNewPhoto", "other", Null, TRUE, NoSnapshot, NoTask), budget)

\* an input event of the sensitivity slider: its value changed
SensitivityChange ==
  \E sens \in Sensitivities \ {ui.slider} :
    LET S2 == handleSensitivityChange([St EXCEPT !.ui.slider = sens], sens)
    IN  /\ budget.redetects > 0
        /\ Len(S2.tasks) <= budget.tasks
        /\ Step(S2, Op("handleSensitivityChange", "other", activePhotoId, TRUE,
                       NoSnapshot, NoTask),
                [budget EXCEPT !.redetects = @ - 1])

\* the download-all button is shown with the strip
DownloadAll ==
  /\ Len(ui.strip) > 0
  /\ budget.exports > 0
  /\ LET S2 == handleDownloadAll(St)
     IN  /\ Len(S2.tasks) <= budget.tasks
         /\ Step(S2, Op("handleDownloadAll", "other", Null, TRUE, NoSnapshot,
                        NoTask), [budget EXCEPT !.exports = @ - 1])

\* a call of processPhoto on a photo of the list, by a caller that does not
\* wait for it
ProcessPhoto ==
  \E i \in 1..Len(photos) :
    LET S2 == processPhoto(St, photos[i], <<>>)
    IN  /\ Len(S2.tasks) <= budget.tasks
        /\ Step(S2, Op("processPhoto", "other", photos[i], TRUE, NoSnapshot,
                       NoTask), budget)

\* an edit is a call that pushed an undo snapshot
IsEdit(S2) ==
  /\ ActiveFound(St)
  /\ S2.photo[activePhotoId].undoStack # photo[activePhotoId].undoStack

EditStep(S2, name) ==
  /\ S2 # St
  /\ budget.edits > 0
  /\ Step(S2, Op(name, IF IsEdit(S2) THEN "edit" ELSE "select", activePhotoId,
                 TRUE, NoSnapshot, NoTask),
          [budget EXCEPT !.edits = @ - 1])

CanvasClick ==
  \E pt \in ClickPoints, t \in Clock :
    EditStep(handleCanvasClick(St, pt[1], pt[2], t), "handleCanvasClick")

FaceDrawn ==
  \E box \in DrawBoxes, t \in Clock :
    EditStep(handleFaceDrawn(St, box, t), "handleFaceDrawn")

\* the faces a drag can name: those of the active photo
ActiveFaces == IF ActiveFound(St) THEN photo[activePhotoId].faces ELSE <<>>

FaceMoved ==
  \E i \in 1..Len(ActiveFaces), d \in MoveDeltas :
    LET b == ActiveFaces[i].box
    IN  EditStep(handleFaceMoved(St, ActiveFaces[i].id,
                                 Box(b.x + d[1], b.y + d[2], b.width, b.height)),
                 "handleFaceMoved")

FaceResized ==
  \E i \in 1..Len(ActiveFaces), d \in ResizeDeltas :
    LET b == ActiveFaces[i].box
    IN  EditStep(handleFaceResized(St, ActiveFaces[i].id,
                                   Box(b.x, b.y, Max(20, b.width + d[1]),
                                       Max(20, b.height + d[2]))),
                 "handleFaceResized")

FaceRemoved ==
  \E S2 \in {handleFaceRemoved(St)} : EditStep(S2, "handleFaceRemoved")

\* a call of handleUndo; one that returns at its guard changes nothing in
\* the program and is recorded in the history only (ok: it popped a snapshot)
Undo ==
  \E S2 \in {handleUndo(St)} :
      Step(S2, Op("handleUndo", "undo", activePhotoId, S2 # St,
                  IF ActiveFound(St) THEN Snapshot(photo[activePhotoId])
                  ELSE NoSnapshot, NoTask),
           budget)

Redo ==
  \E S2 \in {handleRedo(St)} :
      Step(S2, Op("handleRedo", "redo", activePhotoId, S2 # St, NoSnapshot,
                  NoTask),
           budget)

\* ---------------------------------------------------------- specifications
\* what a behaviour may still do: edits, failures, exports, sensitivity
\* changes and files left, tasks allowed at a time, observer enabled
Budget(edits, fails, exports, redetects, files, maxTasks, observe, recency) ==
  [edits |-> edits, fails |-> fails, exports |-> exports,
   redetects |-> redetects, files |-> files, tasks |-> maxTasks,
   observe |-> observe, recency |-> recency]

InitOp == Op("init", "other", Null, TRUE, NoSnapshot, NoTask)

\* the program state after construction
St0 ==
  [photos |-> <<>>, photo |-> <<>>, activePhotoId |-> Null,
   sensitivity |-> "medium", queueRunning |-> FALSE, tasks |-> <<>>,
   now |-> 0, ui |-> InitUi]

Start(S) ==
  /\ photos = S.photos
  /\ photo = S.photo
  /\ activePhotoId = S.activePhotoId
  /\ sensitivity = S.sensitivity
  /\ queueRunning = S.queueRunning
  /\ tasks = S.tasks
  /\ now = S.now
  /\ ui = S.ui
  /\ gfx = NoGfx
  /\ pointer = InitPointer
  /\ zip = NoZip
  /\ chosen = NoChoice

Init ==
  /\ Start(St0)
  /\ op = InitOp
  /\ recent = <<>>
  /\ track = Off
  /\ budget = Budget(0, MaxFailures, 0, 0, MaxFiles, MaxTasks, FALSE, FALSE)

\* the photo pipeline from the empty application: files, thumbnails, loads,
\* the queue, switches, removals and resets
Next ==
  \/ FilesSelected
  \/ ThumbnailsDone
  \/ LoadDone
  \/ PhotoSwitch
  \/ PhotoRemoved
  \/ NewPhoto

Spec == Init /\ [][Next]_vars

\* the program state after n files were selected in the empty application
\* and their thumbnails were generated: the first photo is active and loads
AfterSelection(n) ==
  LET S1 == handleFilesSelected(St0, n)
  IN  filesAfterThumbs(RemoveTask(S1, 1), S1.tasks[1])

InitEvict ==
  /\ Start(AfterSelection(EvictFiles))
  /\ op = Op("thumbnailsDone", "other", Null, TRUE, NoSnapshot, NoTask)
  /\ recent = <<1>>
  /\ track = Off
  /\ budget = Budget(MaxDraws, 0, MaxExports, 0, 0, EvictTasks,
                     FALSE, TRUE)

\* more photos than MAX_LOADED_CANVASES: loads, the queue, switches,
\* removals, regions drawn on the active photo, batch export
NextEvict ==
  \/ LoadDone
  \/ PhotoSwitch
  \/ PhotoRemoved
  \/ FaceDrawn
  \/ DownloadAll
  \/ BlobDone
  \/ ZipDone

SpecEvict == InitEvict /\ [][NextEvict]_vars

\* the same selection; then either operations that overlap and no more
\* files, or one operation at a time and more files
InitCanvases ==
  /\ Start(AfterSelection(EvictFiles))
  /\ op = Op("thumbnailsDone", "other", Null, TRUE, NoSnapshot, NoTask)
  /\ recent = <<>>
  /\ track = Off
  /\ budget \in {Budget(0, 0, MaxExports, 0, 0, MaxTasks, FALSE, FALSE),
                  Budget(0, 0, MaxExports, 0, CanvasMoreFiles, EvictTasks,
                         FALSE, FALSE)}

\* more photos than MAX_LOADED_CANVASES and loads that overlap: file
\* additions, loads, the queue, switches, removals, batch export
NextCanvases ==
  \/ FilesSelected
  \/ ThumbnailsDone
  \/ LoadDone
  \/ PhotoSwitch
  \/ PhotoRemoved
  \/ DownloadAll
  \/ BlobDone
  \/ ZipDone

SpecCanvases == InitCanvases /\ [][NextCanvases]_vars

\* the program state after one file was selected and loaded
Loaded ==
  LET S1 == AfterSelection(1)
  IN  Resume(processPhotoDone(RemoveTask(S1, 1), S1.tasks[1], TRUE),
             S1.tasks[1].cont)

\* one move of the first face of the active photo, to the right or back
MoveFirstFace(S) ==
  LET f == S.photo[S.activePhotoId].faces[1]
      d == IF f.box.x = 40 THEN 20 ELSE -20
  IN  handleFaceMoved(S, f.id, Box(f.box.x + d, f.box.y, f.box.width,
                                   f.box.height))

RECURSIVE Moves(_, _)
\* n moves of the first face of the active photo, one after the other
Moves(S, n) ==
  IF n = 0 THEN S
  ELSE IF n = 1 THEN MoveFirstFace(S)
  ELSE LET T == Moves(S, n \div 2)
       IN  IF T # S THEN Moves(T, n - n \div 2) ELSE S

\* one loaded photo, either untouched or after MAX_UNDO moves of its face
\* (the observer having started at the first of them, or not)
InitHistory ==
  \/ /\ Start(Loaded)
     /\ op = Op("loadDone", "other", 1, TRUE, NoSnapshot, NoTask)
     /\ recent = <<1>>
     /\ track = Off
     /\ budget = Budget(MaxEdits, 0, 0, 0, 0, 0, TRUE, FALSE)
  \/ /\ Start(Moves(Loaded, MAX_UNDO))
     /\ op = Op("handleFaceMoved", "edit", 1, TRUE, NoSnapshot, NoTask)
     /\ recent = <<1>>
     /\ track \in {Off, [on |-> TRUE, pid |-> 1,
                         base |-> StripOid(Loaded.photo[1].faces),
                         n |-> MAX_UNDO, k |-> 0]}
     /\ budget = Budget(MaxDeepEdits, 0, 0, 0, 0, 0, TRUE, FALSE)

\* the history of one photo: edits, undo, redo
NextHistory ==
  \/ CanvasClick
  \/ FaceDrawn
  \/ FaceMoved
  \/ FaceResized
  \/ FaceRemoved
  \/ Undo
  \/ Redo

SpecHistory == InitHistory /\ [][NextHistory]_vars

InitRedetect ==
  /\ Start(Loaded)
  /\ op = Op("loadDone", "other", 1, TRUE, NoSnapshot, NoTask)
  /\ recent = <<1>>
  /\ track = Off
  /\ budget = Budget(RedetectEdits, MaxFailures, 0, MaxRedetects, 0,
                     RedetectTasks, FALSE, FALSE)

\* one loaded photo: edits, undo, redo and re-detection after a change of
\* the sensitivity
NextRedetect ==
  \/ CanvasClick
  \/ FaceDrawn
  \/ FaceMoved
  \/ FaceResized
  \/ FaceRemoved
  \/ Undo
  \/ Redo
  \/ SensitivityChange
  \/ RedetectDone

SpecRedetect == InitRedetect /\ [][NextRedetect]_vars

InitProcess ==
  /\ Start(AfterSelection(ProcessFiles))
  /\ op = Op("thumbnailsDone", "other", Null, TRUE, NoSnapshot, NoTask)
  /\ recent = <<>>
  /\ track = Off
  /\ budget = Budget(ProcessEdits, 0, 0, 0, 0, ProcessTasks, FALSE, FALSE)

\* processPhoto called on any photo of the list at any time, between loads,
\* switches, edits and undos
NextProcess ==
  \/ LoadDone
  \/ PhotoSwitch
  \/ CanvasClick
  \/ FaceMoved
  \/ Undo
  \/ ProcessPhoto

SpecProcess == InitProcess /\ [][NextProcess]_vars

RECURSIVE LoadAll(_)
\* every load in flight, and every load the queue then starts, succeeds
LoadAll(S) ==
  IF Len(S.tasks) = 0 THEN S
  ELSE LoadAll(Resume(processPhotoDone(RemoveTask(S, 1), S.tasks[1], TRUE),
                      S.tasks[1].cont))

InitPair ==
  /\ Start(LoadAll(AfterSelection(PairFiles)))
  /\ op = Op("loadDone", "other", PairFiles, TRUE, NoSnapshot, NoTask)
  /\ recent = <<>>
  /\ track = Off
  /\ budget = Budget(PairEdits, 0, 0, 0, 0, 0, FALSE, FALSE)

\* several loaded photos: edits, undo and redo on the active one, switches
NextPair ==
  \/ CanvasClick
  \/ FaceDrawn
  \/ FaceMoved
  \/ FaceResized
  \/ FaceRemoved
  \/ Undo
  \/ Redo
  \/ PhotoSwitch

SpecPair == InitPair /\ [][NextPair]_vars

InitSwitch ==
  /\ Start(AfterSelection(SwitchFiles))
  /\ op = Op("thumbnailsDone", "other", Null, TRUE, NoSnapshot, NoTask)
  /\ recent = <<>>
  /\ track = Off
  /\ budget = Budget(SwitchEdits, MaxFailures, 0, 0, 0, SwitchTasks,
                     FALSE, FALSE)

\* switches between photos that are loading, loaded or failed, with a region
\* drawn, undo and redo
NextSwitch ==
  \/ LoadDone
  \/ PhotoSwitch
  \/ FaceDrawn
  \/ Undo
  \/ Redo

SpecSwitch == InitSwitch /\ [][NextSwitch]_vars

InitCapacity ==
  /\ Start(AfterSelection(CapacityFiles))
  /\ op = Op("thumbnailsDone", "other", Null, TRUE, NoSnapshot, NoTask)
  /\ recent = <<>>
  /\ track = Off
  /\ budget = Budget(0, 0, 0, 0, CapacityMoreFiles, CapacityTasks, FALSE, FALSE)

\* a list close to MAX_PHOTOS: more selections while the queue is draining
\* and after it
NextCapacity ==
  \/ FilesSelected
  \/ ThumbnailsDone
  \/ LoadDone

SpecCapacity == InitCapacity /\ [][NextCapacity]_vars

\* ---------------------------------------------------------------- rendering
\* A surface is a grid of pixels, row by row.  A pixel holds the ink of its
\* red channel and the ink of its other channels; an ink is <<code, a, b>>:
\*   <<Original, k, 0>>   the decoded image at place k
\*   <<Black, 0, 0>>      #000000
\*   <<Emoji, e, 0>>      the glyph e
\*   <<Colour, c, 0>>     the fill colour c
\*   <<Shade, r, b>>      rgb(r, r, b) of the silhouette
\*   <<ScanLine, 0, 0>>   rgba(255,255,255,0.03) over black
\*   <<Swirled, k, i>>    place k of a region swirled with intensity i
\* and code + Blurred, + Pixelated, + Darkened for an ink that was filtered
\* by blur(b px), averaged over a block of size b, or covered by
\* rgba(0,0,0,0.6).  `wrote` is history: the pixels the calls on the context
\* have written since it was last cleared.
Original == 0
Black == 1
Emoji == 2
Colour == 3
Shade == 4
ScanLine == 5
Swirled == 6
Blurred == 20
Pixelated == 40
Darkened == 100

Ink(code, a, b) == <<code, a, b>>
Solid(ink) == [r |-> ink, c |-> ink]
Place(W, c, r) == r * W + c + 1
ColOf(W, k) == (k - 1) % W
RowOf(W, k) == (k - 1) \div W
Places(cv) == 1..(cv.width * cv.height)

\* a decoded image: every place has its own content
Image(W, H) ==
  [width |-> W, height |-> H,
   px |-> [k \in 1..(W * H) |-> Solid(Ink(Original, k, 0))], wrote |-> {}]

Filtered(p, code, b) ==
  [r |-> Ink(p.r[1] + code, p.r[2], b), c |-> Ink(p.c[1] + code, p.c[2], b)]

\* rgba(0,0,0,0.6) composited over a pixel; black stays black
Darken(p) ==
  [r |-> IF p.r = Ink(Black, 0, 0) THEN p.r ELSE Ink(p.r[1] + Darkened, p.r[2], p.r[3]),
   c |-> IF p.c = Ink(Black, 0, 0) THEN p.c ELSE Ink(p.c[1] + Darkened, p.c[2], p.c[3])]

\* Math.round and Math.floor of the fraction n / d, d > 0
Round(n, d) == (2 * n + d) \div (2 * d)
Floor(n, d) == n \div d
Ceil(n, d) == -((-n) \div d)
Abs(n) == IF n < 0 THEN -n ELSE n

\* A shape covers a pixel when it covers the centre of the pixel.
\* the rectangle from x0 / d to x1 / d and from y0 / d to y1 / d
InRect(c, r, x0, y0, x1, y1, d) ==
  /\ 2 * x0 <= (2 * c + 1) * d /\ (2 * c + 1) * d < 2 * x1
  /\ 2 * y0 <= (2 * r + 1) * d /\ (2 * r + 1) * d < 2 * y1

\* a * a as <<millions, rest>>, for 0 <= a < 40000000
Sq(a) ==
  LET a1 == a \div 1000
      a0 == a % 1000
      mid == 2 * a1 * a0
      lo == (mid % 1000) * 1000 + a0 * a0
  IN <<a1 * a1 + (mid \div 1000) + (lo \div 1000000), lo % 1000000>>

\* a * a + b * b <= e * e
SqSumLe(a, b, e) ==
  LET lo == Sq(a)[2] + Sq(b)[2]
      hi == Sq(a)[1] + Sq(b)[1] + (lo \div 1000000)
  IN \/ hi < Sq(e)[1]
     \/ hi = Sq(e)[1] /\ lo % 1000000 <= Sq(e)[2]

\* ctx.ellipse(cx2 / 2, cy2 / 2, rx / d, ry / d, 0, 0, 2 * PI)
InEllipse(c, r, cx2, cy2, rx, ry, d) ==
  /\ rx > 0 /\ ry > 0
  /\ SqSumLe(Abs(d * (2 * c + 1 - cx2)) * ry, Abs(d * (2 * r + 1 - cy2)) * rx,
             2 * rx * ry)

\* the places of ctx where In holds
Where(ctx, In(_, _)) ==
  {k \in Places(ctx) : In(ColOf(ctx.width, k), RowOf(ctx.width, k))}

\* a fill or a draw: the places in S receive Of(k)
Draw(ctx, S, Of(_)) ==
  [ctx EXCEPT !.px = [k \in Places(ctx) |-> IF k \in S THEN Of(k) ELSE ctx.px[k]],
              !.wrote = @ \cup S]

Fill(ctx, S, ink) == Draw(ctx, S, LAMBDA k : Solid(ink))

\* cloneCanvas: a new surface with the source drawn on it
cloneCanvas(source) == [source EXCEPT !.wrote = {}]

\* options.emoji and options.color as numbers; 0 is undefined, which the
\* default parameters of applyEmoji and applySolidColor replace
Undefined == 0
DefaultEmoji == 1
DefaultColour == 1
NoLandmarks == [n |-> 0, eyes |-> Box(0, 0, 0, 0), outline |-> {}]

\* applyPixelate; the offscreen cell that a pixel of the box is drawn from
\* is taken from the source pixel at the centre of the cell
applyPixelate(ctx, sourceCanvas, faceBox, intensity) ==
  LET x == faceBox.x
      y == faceBox.y
      width == faceBox.width
      height == faceBox.height
      faceSize == Min(width, height)
      \* in tenths
      maxBlocks == Max(40, faceSize)
      blockSize == Max(2, Round(intensity * maxBlocks, 1000) + 2)
      scaledW == Max(1, Ceil(width, blockSize))
      scaledH == Max(1, Ceil(height, blockSize))
      cellX(c) == Floor((2 * (c - x) + 1) * scaledW, 2 * width)
      cellY(r) == Floor((2 * (r - y) + 1) * scaledH, 2 * height)
      srcX(c) == x + Floor((2 * cellX(c) + 1) * width, 2 * scaledW)
      srcY(r) == y + Floor((2 * cellY(r) + 1) * height, 2 * scaledH)
      onSource(c, r) ==
        /\ 0 <= srcX(c) /\ srcX(c) < sourceCanvas.width
        /\ 0 <= srcY(r) /\ srcY(r) < sourceCanvas.height
      S == Where(ctx, LAMBDA c, r :
             /\ InEllipse(c, r, 2 * x + width, 2 * y + height, width, height, 2)
             /\ InRect(c, r, x, y, x + width, y + height, 1)
             /\ onSource(c, r))
  IN Draw(ctx, S, LAMBDA k :
       Filtered(sourceCanvas.px[Place(sourceCanvas.width,
                                      srcX(ColOf(ctx.width, k)),
                                      srcY(RowOf(ctx.width, k)))],
                Pixelated, blockSize))

\* applyBlur; filter tells whether the context has the filter property
applyBlur(ctx, sourceCanvas, faceBox, intensity, filter) ==
  LET x == faceBox.x
      y == faceBox.y
      width == faceBox.width
      height == faceBox.height
      faceSize == Min(width, height)
      \* in twentieths
      padding == Min(faceSize, 400)
      blurPx == Max(2, Round(intensity * faceSize * 7, 10000))
      margin == padding + 20 * blurPx
      sx == Max(0, 20 * x - margin)
      sy == Max(0, 20 * y - margin)
      sw == Min(20 * sourceCanvas.width - sx, 20 * width + 2 * margin)
      sh == Min(20 * sourceCanvas.height - sy, 20 * height + 2 * margin)
      S == Where(ctx, LAMBDA c, r :
             /\ InEllipse(c, r, 2 * x + width, 2 * y + height,
                          10 * width + padding, 10 * height + padding, 20)
             /\ InRect(c, r, sx, sy, sx + sw, sy + sh, 20)
             /\ c < sourceCanvas.width /\ r < sourceCanvas.height)
  IN IF filter
       THEN Draw(ctx, S, LAMBDA k :
              Filtered(sourceCanvas.px[Place(sourceCanvas.width,
                                             ColOf(ctx.width, k),
                                             RowOf(ctx.width, k))],
                       Blurred, blurPx))
       ELSE applyPixelate(ctx, sourceCanvas, faceBox, Max(4, blurPx))

\* applyBlackBarEyes; thicknessMultiplier = (100 + 3 * intensity) / 200.
\* landmarks.eyes is the box around positions 36..47.
BarWithLandmarks(faceBox, intensity, landmarks) ==
  LET eyeWidth == landmarks.eyes.width
      eyeHeight == landmarks.eyes.height
      minX == landmarks.eyes.x
      minY == landmarks.eyes.y
      \* in 10000ths: max(eyeHeight * 2.5, height * 0.14) * thicknessMultiplier
      barHeight == (Max(eyeHeight * 250, faceBox.height * 14)
                      * (100 + 3 * intensity)) \div 2
      barY == (2 * minY + eyeHeight) * 5000 - (barHeight \div 2)
  IN [x0 |-> (4 * minX - eyeWidth) * 2500, y0 |-> barY,
      x1 |-> (4 * minX + 5 * eyeWidth) * 2500, y1 |-> barY + barHeight]

BarWithoutLandmarks(faceBox, intensity) ==
  LET \* in 10000ths
      barY == faceBox.y * 10000 + faceBox.height * 2800
      barHeight == faceBox.height * 8 * (100 + 3 * intensity)
  IN [x0 |-> faceBox.x * 10000, y0 |-> barY,
      x1 |-> (faceBox.x + faceBox.width) * 10000, y1 |-> barY + barHeight]

EyeBar(faceBox, intensity, landmarks) ==
  IF landmarks.n >= 48
    THEN BarWithLandmarks(faceBox, intensity, landmarks)
    ELSE BarWithoutLandmarks(faceBox, intensity)

applyBlackBarEyes(ctx, faceBox, intensity, landmarks) ==
  LET bar == EyeBar(faceBox, intensity, landmarks)
  IN Fill(ctx, Where(ctx, LAMBDA c, r :
                InRect(c, r, bar.x0, bar.y0, bar.x1, bar.y1, 10000)),
          Ink(Black, 0, 0))

\* the ellipse of applyBlackout, applySolidColor and the fallback of
\* applySilhouette: radii (width / 2) * kx / 100 and (height / 2) * ky / 100
FaceEllipse(ctx, faceBox, kx, ky) ==
  Where(ctx, LAMBDA c, r :
    InEllipse(c, r, 2 * faceBox.x + faceBox.width,
              2 * faceBox.y + faceBox.height,
              faceBox.width * (kx \div 5), faceBox.height * (ky \div 5), 40))

applyBlackout(ctx, faceBox) ==
  Fill(ctx, FaceEllipse(ctx, faceBox, 105, 105), Ink(Black, 0, 0))

\* applyEmoji; the glyph is taken to cover the square of its font size
applyEmoji(ctx, faceBox, intensity, emoji) ==
  LET \* in 125ths
      size == Max(faceBox.width, faceBox.height) * (75 + intensity)
      e == IF emoji = Undefined THEN DefaultEmoji ELSE emoji
  IN Fill(ctx, Where(ctx, LAMBDA c, r :
                /\ 125 * Abs(2 * c + 1 - 2 * faceBox.x - faceBox.width) <= size
                /\ 125 * Abs(2 * r + 1 - 2 * faceBox.y - faceBox.height) <= size),
          Ink(Emoji, e, 0))

applySolidColor(ctx, faceBox, color) ==
  Fill(ctx, FaceEllipse(ctx, faceBox, 105, 105),
       Ink(Colour, IF color = Undefined THEN DefaultColour ELSE color, 0))

\* applySilhouette; landmarks.outline holds the pixels inside the path
\* through the jaw and the estimated forehead
applySilhouette(ctx, faceBox, intensity, landmarks) ==
  LET \* darkness = (40 - 0.3 * intensity) / 100
      r == Round((400 - 3 * intensity) * 50, 1000)
      b == Round((400 - 3 * intensity) * 60, 1000)
  IN IF landmarks.n >= 17
       THEN Fill(ctx, landmarks.outline \cap Places(ctx), Ink(Shade, r, b))
       ELSE Fill(ctx, FaceEllipse(ctx, faceBox, 105, 115), Ink(Shade, r, b))

\* Math.random(): the n-th value drawn in a run, in hundredths; rnd is the
\* sequence the generator repeats
Random(rnd, n) == rnd[(n % Len(rnd)) + 1]

\* the rectangle applyGlitch and applySwirl read and write back
ClampRegion(faceBox, sourceCanvas) ==
  LET fx == Max(0, faceBox.x)
      fy == Max(0, faceBox.y)
  IN [fx |-> fx, fy |-> fy,
      fw |-> Min(faceBox.width, sourceCanvas.width - fx),
      fh |-> Min(faceBox.height, sourceCanvas.height - fy)]

RegionPlaces(ctx, g) ==
  Where(ctx, LAMBDA c, r : InRect(c, r, g.fx, g.fy, g.fx + g.fw, g.fy + g.fh, 1))

NoShift == 1000

\* the slice loop of applyGlitch from `row` on: the shift of every row
\* (NoShift where the row is left alone) and the values drawn so far
RECURSIVE GlitchRows(_, _, _, _, _, _)
GlitchRows(row, g, intensity, rnd, n, shifts) ==
  IF row >= g.fh THEN [shifts |-> shifts, n |-> n]
  ELSE IF 100 * Random(rnd, n) < 30 * intensity
    THEN GlitchRows(row + 1, g, intensity, rnd, n + 2,
           Append(shifts,
                  Floor((Random(rnd, n + 1) - 50) * g.fw * 3 * intensity, 100000)))
    ELSE GlitchRows(row + 1, g, intensity, rnd, n + 1, Append(shifts, NoShift))

\* band i of applyGlitch, drawn from the n-th value on
GlitchBand(g, intensity, rnd, n) ==
  [bandY |-> Floor(Random(rnd, n) * g.fh, 100),
   bandH |-> Floor(Random(rnd, n + 1) * g.fh * 8, 10000) + 1,
   channelShift |->
     Floor((Random(rnd, n + 2) - 50) * g.fw * 15 * intensity, 1000000)]

applyGlitch(ctx, sourceCanvas, faceBox, intensity, rnd, n) ==
  LET g == ClampRegion(faceBox, sourceCanvas)
      rows == GlitchRows(0, g, intensity, rnd, n, <<>>)
      numBands == Floor(300 + intensity * 8, 100)
      bands == [i \in 1..numBands |->
                  GlitchBand(g, intensity, rnd, rows.n + 3 * (i - 1))]
      \* the last band that covers the row, 0 where none does
      lastBand == [row \in 0..(g.fh - 1) |->
                     LET on == {i \in 1..numBands :
                                  /\ bands[i].bandY <= row
                                  /\ row < Min(g.fh, bands[i].bandY + bands[i].bandH)}
                     IN IF on = {} THEN 0
                        ELSE CHOOSE i \in on : \A j \in on : j <= i]
      data(row, col) == ctx.px[Place(ctx.width, g.fx + col, g.fy + row)]
      clamp(col) == Min(g.fw - 1, Max(0, col))
      sliced(row, col) ==
        IF rows.shifts[row + 1] = NoShift THEN data(row, col)
        ELSE data(row, clamp(col - rows.shifts[row + 1]))
      result(row, col) ==
        IF lastBand[row] = 0 THEN sliced(row, col)
        ELSE [r |-> data(row, clamp(col + bands[lastBand[row]].channelShift)).r,
              c |-> sliced(row, col).c]
  IN IF g.fw <= 0 \/ g.fh <= 0 THEN [ctx |-> ctx, n |-> n]
     ELSE [ctx |-> Draw(ctx, RegionPlaces(ctx, g), LAMBDA k :
                     result(RowOf(ctx.width, k) - g.fy, ColOf(ctx.width, k) - g.fx)),
           n |-> rows.n + 3 * numBands]

\* applySwirl.  The angle is 0 for intensity 0 and at the first pixel of the
\* region, whose distance from the centre is maxRadius: these pixels are
\* copied from themselves.  The sines and cosines of the other angles are not
\* computed: such a pixel is named by its place in the region and the
\* intensity.
applySwirl(ctx, sourceCanvas, faceBox, intensity) ==
  LET g == ClampRegion(faceBox, sourceCanvas)
      at(k) == (RowOf(ctx.width, k) - g.fy) * g.fw + (ColOf(ctx.width, k) - g.fx)
  IN IF g.fw <= 0 \/ g.fh <= 0 THEN ctx
     ELSE Draw(ctx, RegionPlaces(ctx, g), LAMBDA k :
            IF intensity = 0 \/ at(k) = 0 THEN ctx.px[k]
            ELSE Solid(Ink(Swirled, at(k), intensity)))

\* the rough edges of applyRedact from the i-th on
RECURSIVE RoughEdges(_, _, _, _, _)
RoughEdges(ctx, faceBox, rnd, n, i) ==
  IF i >= 15 THEN ctx
  ELSE LET pad == 4
           \* in hundredths
           ex == 100 * (faceBox.x - pad)
                   + Random(rnd, n) * (faceBox.width + pad * 2)
           ey == faceBox.y - pad
                   + (IF Random(rnd, n + 1) < 50 THEN 0
                      ELSE faceBox.height + pad * 2)
           S == Where(ctx, LAMBDA c, r :
                  InRect(c, r, ex - 100, 100 * (ey - 1), ex + 200,
                         100 * (ey + 2), 100))
       IN RoughEdges(Draw(ctx, S, LAMBDA k : Darken(ctx.px[k])),
                     faceBox, rnd, n + 2, i + 1)

applyRedact(ctx, faceBox, rnd, n) ==
  LET x == faceBox.x
      y == faceBox.y
      width == faceBox.width
      height == faceBox.height
      pad == 4
      main == Fill(ctx, Where(ctx, LAMBDA c, r :
                     InRect(c, r, x - pad, y - pad, x + width + pad,
                            y + height + pad, 1)),
                   Ink(Black, 0, 0))
      lines == Fill(main, Where(main, LAMBDA c, r :
                      /\ y <= r /\ r < y + height /\ (r - y) % 3 = 0
                      /\ InRect(c, r, x - pad, r, x + width + pad, r + 1, 1)),
                    Ink(ScanLine, 0, 0))
  IN [ctx |-> RoughEdges(lines, faceBox, rnd, n, 0), n |-> n + 30]

EffectIds ==
  {"blur", "pixelate", "black-bar-eyes", "blackout", "emoji", "solid-color",
   "glitch", "swirl", "silhouette", "redact"}

\* the function that implements an effect id
Implementation(effectId) ==
  CASE effectId = "blur" -> "applyBlur"
    [] effectId = "pixelate" -> "applyPixelate"
    [] effectId = "black-bar-eyes" -> "applyBlackBarEyes"
    [] effectId = "blackout" -> "applyBlackout"
    [] effectId = "emoji" -> "applyEmoji"
    [] effectId = "solid-color" -> "applySolidColor"
    [] effectId = "glitch" -> "applyGlitch"
    [] effectId = "swirl" -> "applySwirl"
    [] effectId = "silhouette" -> "applySilhouette"
    [] effectId = "redact" -> "applyRedact"
    [] OTHER -> "none"

\* an applyEffect whose switch has no default case
applyEffectNoDefault(ctx, sourceCanvas, faceBox, effectId, intensity, landmarks, options, env, n) ==
  IF effectId \in EffectIds \ {"blur"}
    THEN [ctx |-> ctx, n |-> n, impl |-> Implementation(effectId)]
    ELSE IF effectId = "blur"
      THEN [ctx |-> applyBlur(ctx, sourceCanvas, faceBox, intensity, env.filter),
            n |-> n, impl |-> "applyBlur"]
      ELSE [ctx |-> ctx, n |-> n, impl |-> "none"]

\* applyEffect: the surface after the effect, the values drawn from
\* Math.random so far and, as history, the implementation that ran
applyEffect(ctx, sourceCanvas, faceBox, effectId, intensity, landmarks, options, env, n) ==
  LET done(c, impl) == [ctx |-> c, n |-> n, impl |-> impl]
      drew(res, impl) == [ctx |-> res.ctx, n |-> res.n, impl |-> impl]
  IN CASE effectId = "blur" ->
            done(applyBlur(ctx, sourceCanvas, faceBox, intensity, env.filter),
                 "applyBlur")
       [] effectId = "pixelate" ->
            done(applyPixelate(ctx, sourceCanvas, faceBox, intensity),
                 "applyPixelate")
       [] effectId = "black-bar-eyes" ->
            done(applyBlackBarEyes(ctx, faceBox, intensity, landmarks),
                 "applyBlackBarEyes")
       [] effectId = "blackout" ->
            done(applyBlackout(ctx, faceBox), "applyBlackout")
       [] effectId = "emoji" ->
            done(applyEmoji(ctx, faceBox, intensity, options.emoji),
                 "applyEmoji")
       [] effectId = "solid-color" ->
            done(applySolidColor(ctx, faceBox, options.color),
                 "applySolidColor")
       [] effectId = "glitch" ->
            drew(applyGlitch(ctx, sourceCanvas, faceBox, intensity, env.rnd, n),
                 "applyGlitch")
       [] effectId = "swirl" ->
            done(applySwirl(ctx, sourceCanvas, faceBox, intensity),
                 "applySwirl")
       [] effectId = "silhouette" ->
            done(applySilhouette(ctx, faceBox, intensity, landmarks),
                 "applySilhouette")
       [] effectId = "redact" ->
            drew(applyRedact(ctx, faceBox, env.rnd, n), "applyRedact")
       [] OTHER ->
            done(applyBlur(ctx, sourceCanvas, faceBox, intensity, env.filter),
                 "applyBlur")

\* undefined where an effect id is expected: no effect has this id
UndefinedId == "undefined"
\* face.intensity and face.options when the face has none
NoIntensity == -1
NoOptions == [given |-> FALSE, emoji |-> Undefined, color |-> Undefined]
Options(emoji, color) == [given |-> TRUE, emoji |-> emoji, color |-> color]

\* face.effectId || globalEffectId
EffectOf(face, globalEffectId) ==
  IF face.effectId \in {"", UndefinedId} THEN globalEffectId ELSE face.effectId

\* the loop of processImage from face i on; `log` is history: for every
\* face, what applyEffect was called with, what it ran and what it wrote
RECURSIVE ApplyFaces(_, _, _, _, _, _, _, _, _, _, _)
ApplyFaces(heap, processed, fullCanvas, faces, globalEffectId, globalIntensity, globalOptions, env, i, n, log) ==
  IF i > Len(faces) THEN [heap |-> heap, processed |-> processed, log |-> log]
  ELSE LET face == faces[i]
           effectId == EffectOf(face, globalEffectId)
           intensity == IF face.intensity # NoIntensity
                          THEN face.intensity ELSE globalIntensity
           options == IF face.options.given THEN face.options ELSE globalOptions
           res == applyEffect([heap[processed] EXCEPT !.wrote = {}],
                              heap[fullCanvas], face.box, effectId, intensity,
                              face.landmarks, options, env, n)
       IN ApplyFaces([heap EXCEPT ![processed] = res.ctx], processed,
                     fullCanvas, faces, globalEffectId, globalIntensity,
                     globalOptions, env, i + 1, res.n,
                     Append(log, [box |-> face.box, effectId |-> effectId,
                                  intensity |-> intensity,
                                  landmarks |-> face.landmarks,
                                  impl |-> res.impl, wrote |-> res.ctx.wrote,
                                  before |-> heap[processed].px,
                                  after |-> res.ctx.px]))

\* processImage on the surfaces `heap`, of which fullCanvas is one; env holds
\* what the platform decides: ctx.filter and the values of Math.random
processImageInPlace(heap, fullCanvas, faces, globalEffectId, globalIntensity, globalOptions, env) ==
  ApplyFaces(heap, fullCanvas, fullCanvas, faces, globalEffectId,
             globalIntensity, globalOptions, env, 1, 0, <<>>)

processImage(heap, fullCanvas, faces, globalEffectId, globalIntensity, globalOptions, env) ==
  ApplyFaces(Append(heap, cloneCanvas(heap[fullCanvas])), Len(heap) + 1,
             fullCanvas, faces, globalEffectId, globalIntensity,
             globalOptions, env, 1, 0, <<>>)

\* ------------------------------------------------ the pixels of one photo
\* width and height of the decoded image, in pixels
RenderWidth == 8
RenderHeight == 8
\* calls of processImage in one behaviour
RenderRuns == 2

Face(box, effectId, intensity, options, landmarks) ==
  [box |-> box, effectId |-> effectId, intensity |-> intensity,
   options |-> options, landmarks |-> landmarks]

\* boxes inside the image, over each of its edges (the fourth is half beyond
\* the right edge) and beside it
RenderBoxes ==
  {Box(2, 2, 4, 4), Box(-2, 2, 4, 4), Box(2, -2, 4, 4),
   Box(RenderWidth - 2, 2, 4, 4), Box(2, RenderHeight - 2, 4, 4),
   Box(-6, 2, 4, 4), Box(RenderWidth + 1, 2, 4, 4)}

\* 68 positions: the eyes in the upper half of the box, the outline as the
\* pixels of the box without its corners
SomeLandmarks ==
  [n |-> 68, eyes |-> Box(3, 3, 2, 1),
   outline |-> {Place(RenderWidth, c, r) : c \in 2..5, r \in 2..5}
                 \ {Place(RenderWidth, 2, 2), Place(RenderWidth, 5, 2)}]

\* regions as detectFaces and the handlers make them, and regions with
\* settings of their own
RenderFaces ==
  {Face(b, UndefinedId, NoIntensity, NoOptions, NoLandmarks) : b \in RenderBoxes}
  \cup {Face(Box(2, 2, 4, 4), UndefinedId, NoIntensity, NoOptions, SomeLandmarks),
        Face(Box(2, 2, 4, 4), "", NoIntensity, NoOptions, NoLandmarks),
        Face(Box(3, 3, 4, 4), "blackout", 100, Options(2, 2), NoLandmarks)}

\* regions painted over an earlier one
OverFaces ==
  {Face(Box(3, 3, 4, 4), UndefinedId, NoIntensity, NoOptions, NoLandmarks),
   Face(Box(3, 3, 4, 4), "blackout", 100, Options(2, 2), NoLandmarks)}

RenderLists ==
  {<<>>} \cup {<<f>> : f \in RenderFaces}
  \cup {<<f, g>> : f \in RenderFaces, g \in OverFaces}

\* the ten ids, an id of no effect, the empty string and undefined
EffectInputs == EffectIds \cup {"sepia", "", UndefinedId}
Intensities == {0, 33, 100}
\* Math.random: the generator repeats two values, in hundredths
RandomValues == {10, 90}
RandomRuns == {<<a, b>> : a, b \in RandomValues}

\* the effects that the regions of G get
EffectsOf(faces, effectId) ==
  {EffectOf(faces[i], effectId) : i \in 1..Len(faces)}

\* what Math.random can return in a call of processImage; nothing is drawn
\* where no region gets the glitch or the redact effect
RandomFor(G) ==
  IF EffectsOf(G.faces, G.effectId) \cap {"glitch", "redact"} # {}
    THEN RandomRuns ELSE {<<>>}

\* whether the context has the filter property, which only applyBlur reads
FilterFor(faces, effectId) ==
  IF EffectsOf(faces, effectId) \cap (EffectIds \ {"blur"}) = EffectsOf(faces, effectId)
    THEN {TRUE} ELSE BOOLEAN

NoRun == [by |-> "none", rnd |-> <<>>, px |-> <<>>, log |-> <<>>]

\* a call of processImage by `by` on the photo of G, and what it leaves:
\* the surfaces, and as history the last two results
Render(G, by, rnd, Process(_, _, _, _, _, _, _)) ==
  LET res == Process(<<G.fullCanvas>>, 1, G.faces, G.effectId, G.intensity,
                     G.options, [filter |-> G.filter, rnd |-> rnd])
      out == res.heap[res.processed]
      used == \E i \in 1..Len(res.log) :
                res.log[i].impl \in {"applyGlitch", "applyRedact"}
  IN [G EXCEPT !.fullCanvas = [res.heap[1] EXCEPT !.wrote = {}],
               !.processedCanvas =
                 IF by = "updatePreview" THEN out.px ELSE @,
               !.prev = G.cur,
               !.cur = [by |-> by, rnd |-> IF used THEN rnd ELSE <<>>,
                        px |-> out.px, log |-> res.log],
               !.left = @ - 1]

\* updatePreview on a photo with a surface
previewPixels(G, rnd) ==
  IF Len(G.faces) = 0 THEN [G EXCEPT !.left = @ - 1]
  ELSE Render(G, "updatePreview", rnd, processImage)

\* handleDownload up to exportImage
downloadPixels(G, rnd) ==
  IF Len(G.faces) = 0 THEN [G EXCEPT !.left = @ - 1]
  ELSE Render(G, "handleDownload", rnd, processImage)

UpdatePreview ==
  /\ gfx.on /\ gfx.left > 0
  /\ \E rnd \in RandomFor(gfx) : gfx' = previewPixels(gfx, rnd)
  /\ UNCHANGED program

Download ==
  /\ gfx.on /\ gfx.left > 0
  /\ \E rnd \in RandomFor(gfx) : gfx' = downloadPixels(gfx, rnd)
  /\ UNCHANGED program

InitRender ==
  /\ photos = St0.photos /\ photo = St0.photo
  /\ activePhotoId = St0.activePhotoId /\ sensitivity = St0.sensitivity
  /\ queueRunning = St0.queueRunning /\ tasks = St0.tasks /\ now = St0.now
  /\ ui = St0.ui /\ pointer = InitPointer
  /\ zip = NoZip /\ chosen = NoChoice
  /\ op = InitOp /\ recent = <<>> /\ track = Off
  /\ budget = Budget(0, 0, 0, 0, 0, 0, FALSE, FALSE)
  /\ \E faces \in RenderLists, effectId \in EffectInputs,
        intensity \in Intensities :
       \E filter \in FilterFor(faces, effectId) :
       gfx = [on |-> TRUE, fullCanvas |-> Image(RenderWidth, RenderHeight),
              processedCanvas |-> <<>>, faces |-> faces,
              effectId |-> effectId, intensity |-> intensity,
              options |-> Options(2, 2), filter |-> filter,
              prev |-> NoRun, cur |-> NoRun, left |-> RenderRuns]

\* processImage on one decoded image, for previews and for exports
NextRender ==
  \/ UpdatePreview
  \/ Download

SpecRender == InitRender /\ [][NextRender]_vars

\* ------------------------------------------------------ canvas interaction
\* rect.width / canvas.width: the overlay is shown at the size of the image
DisplayScale == 1
\* getHandleSize and getDeleteBtnSize, in image pixels
HandleSize == 24 \div DisplayScale
DeleteBtnSize == 22 \div DisplayScale
\* ds / 2 + 8 / getDisplayScale()
DeleteHitRadius == DeleteBtnSize \div 2 + 8 \div DisplayScale

RECURSIVE LastContaining(_, _, _, _)
\* the loop of hitTest over currentFaces from index i down: 0 if no box
\* contains the point
LastContaining(fs, cx, cy, i) ==
  IF i < 1 THEN 0
  ELSE IF Contains(fs[i].box, cx, cy) THEN i
  ELSE LastContaining(fs, cx, cy, i - 1)

\* hitTest: the type and the index of the face in currentFaces (0: none)
hitTest(U, cx, cy) ==
  LET sel == IF U.currentSelectedId # NullId
               THEN IndexOfFirst(U.currentFaces, U.currentSelectedId, 1) ELSE 0
      b == U.currentFaces[sel].box
      top == LastContaining(U.currentFaces, cx, cy, Len(U.currentFaces))
  IN IF sel > 0 /\ (cx - (b.x + b.width)) * (cx - (b.x + b.width))
                     + (cy - b.y) * (cy - b.y)
                   <= DeleteHitRadius * DeleteHitRadius
       THEN [type |-> "delete", at |-> sel]
     ELSE IF /\ sel > 0
             /\ 2 * cx >= 2 * b.x - HandleSize /\ 2 * cx <= 2 * b.x + HandleSize
             /\ 2 * cy >= 2 * (b.y + b.height) - HandleSize
             /\ 2 * cy <= 2 * (b.y + b.height) + HandleSize
       THEN [type |-> "resize", at |-> sel]
     ELSE IF top > 0 THEN [type |-> "face", at |-> top]
     ELSE [type |-> "empty", at |-> 0]

\* getResizeBox: the handle is the bottom-left corner, the anchor the
\* top-right corner
getResizeBox(drag) ==
  LET dx == drag.currentX - drag.startX
      dy == drag.currentY - drag.startY
      newWidth == Max(20, drag.origBox.width - dx)
      newHeight == Max(20, drag.origBox.height + dy)
      newX == drag.origBox.x + drag.origBox.width - newWidth
  IN Box(newX, drag.origBox.y, newWidth, newHeight)

\* drawDragPreview: renderOverlay with the box of the dragged face replaced
drawDragPreview(S, drag) ==
  LET dx == drag.currentX - drag.startX
      dy == drag.currentY - drag.startY
      b == drag.origBox
      box == IF drag.mode = "move"
               THEN Box(b.x + dx, b.y + dy, b.width, b.height)
               ELSE getResizeBox(drag)
      tempFaces == [i \in 1..Len(S.ui.currentFaces) |->
                      IF S.ui.currentFaces[i].id = drag.targetFaceId
                        THEN [S.ui.currentFaces[i] EXCEPT !.box = box]
                        ELSE S.ui.currentFaces[i]]
  IN IF drag.mode \in {"move", "resize"}
       THEN renderOverlay(S, tempFaces, S.ui.currentSelectedId)
       ELSE S

Gesture(name, x, y, hit, face, called) ==
  [name |-> name, x |-> x, y |-> y, hit |-> hit, face |-> face,
   called |-> called]

\* handlePointerDown at (x, y); t is what Date.now() returns if a region is
\* created.  The result is the program state and the pointer state.
handlePointerDown(S, P, x, y, t) ==
  LET hit == hitTest(S.ui, x, y)
      face == S.ui.currentFaces[hit.at]
      id == IF hit.at > 0 THEN face.id ELSE NullId
      down == [P.drag EXCEPT !.startX = x, !.startY = y,
                             !.currentX = x, !.currentY = y]
      grab(mode) == [down EXCEPT !.active = TRUE, !.mode = mode,
                                 !.targetFaceId = face.id,
                                 !.origBox = face.box]
      said(called) == Gesture("handlePointerDown", x, y, hit.type, id, called)
  IN IF hit.type = "delete"
       THEN [S |-> handleFaceRemoved(S),
             P |-> [P EXCEPT !.drag = down, !.last = said("onFaceRemoved")]]
     ELSE IF hit.type = "resize"
       THEN [S |-> S,
             P |-> [P EXCEPT !.drag = grab("resize"), !.last = said("none")]]
     ELSE IF hit.type = "face" /\ face.id = S.ui.currentSelectedId
       THEN [S |-> S,
             P |-> [P EXCEPT !.drag = grab("move"), !.last = said("none")]]
     ELSE IF hit.type = "face"
       THEN [S |-> handleCanvasClick(S, x, y, t),
             P |-> [P EXCEPT !.drag = down, !.editorActive = TRUE,
                             !.last = said("onCanvasClick")]]
     ELSE IF ~P.editorActive
       THEN [S |-> S,
             P |-> [P EXCEPT !.drag = down, !.editorActive = TRUE,
                             !.last = said("none")]]
     ELSE [S |-> handleCanvasClick(S, x, y, t),
           P |-> [P EXCEPT !.drag = down, !.last = said("onCanvasClick")]]

\* handlePointerMove while a drag is active
handlePointerMove(S, P, x, y) ==
  LET drag == [P.drag EXCEPT !.currentX = x, !.currentY = y]
  IN [S |-> drawDragPreview(S, drag),
      P |-> [P EXCEPT !.drag = drag,
                      !.last = Gesture("handlePointerMove", x, y, "none",
                                       P.drag.targetFaceId, "none")]]

\* canvas.width and canvas.height of the overlay are those of the image
isOutsideCanvas(x2, y2) ==
  x2 < 0 \/ y2 < 0 \/ x2 > 2 * CanvasSize.width \/ y2 > 2 * CanvasSize.height

\* a release that repositions the region wherever it is released
handlePointerUpMoveOnly(S, P, x, y) ==
  LET dx == x - P.drag.startX
      dy == y - P.drag.startY
      b == P.drag.origBox
      S2 == IF P.drag.mode = "move" /\ dx * dx + dy * dy > 3 * 3
              THEN handleFaceMoved(S, P.drag.targetFaceId,
                                   Box(b.x + dx, b.y + dy, b.width, b.height))
            ELSE IF P.drag.mode = "resize"
              THEN handleFaceResized(S, P.drag.targetFaceId,
                     getResizeBox([P.drag EXCEPT !.currentX = x,
                                                 !.currentY = y]))
            ELSE S
  IN [S |-> S2,
      P |-> [P EXCEPT !.drag = [NoDrag EXCEPT !.startX = P.drag.startX,
                                              !.startY = P.drag.startY,
                                              !.currentX = x, !.currentY = y],
                      !.last = Gesture("handlePointerUp", x, y, P.drag.mode,
                                       P.drag.targetFaceId, "onFaceMoved")]]

\* handlePointerUp while a drag is active; the centre is kept in halves
handlePointerUp(S, P, x, y) ==
  LET drag == [P.drag EXCEPT !.currentX = x, !.currentY = y]
      dx == x - drag.startX
      dy == y - drag.startY
      b == drag.origBox
      newCenterX2 == 2 * b.x + b.width + 2 * dx
      newCenterY2 == 2 * b.y + b.height + 2 * dy
      said(called) == Gesture("handlePointerUp", x, y, drag.mode,
                              drag.targetFaceId, called)
      done(S2, called) ==
        [S |-> S2, P |-> [P EXCEPT !.drag = [drag EXCEPT !.active = FALSE,
                                              !.mode = "null",
                                              !.targetFaceId = NullId,
                                              !.origBox = Box(0, 0, 0, 0)],
                                   !.last = said(called)]]
  IN IF drag.mode = "move"
       THEN IF isOutsideCanvas(newCenterX2, newCenterY2)
              THEN done(handleFaceRemoved(S), "onFaceRemoved")
            ELSE IF dx * dx + dy * dy > 3 * 3
              THEN done(handleFaceMoved(S, drag.targetFaceId,
                                        Box(b.x + dx, b.y + dy, b.width, b.height)),
                        "onFaceMoved")
            ELSE done(S, "none")
     ELSE IF drag.mode = "resize"
       THEN done(handleFaceResized(S, drag.targetFaceId, getResizeBox(drag)),
                 "onFaceResized")
     ELSE done(S, "none")

\* pointer-downs in one behaviour
PointerEdits == 4

\* the boxes the detector reported for the photo: two that overlap and a
\* flat one, 16 pixels high
PointerBoxes == <<Box(40, 40, 80, 80), Box(80, 80, 80, 80), Box(300, 300, 40, 16)>>

\* the result of detectFaces for boxes bs
Detected(bs) ==
  [i \in 1..Len(bs) |->
     [id |-> FaceId(i - 1), box |-> bs[i], score |-> 90,
      landmarks |-> "landmarks", manual |-> FALSE, oid |-> 0]]

\* the program state after one file was selected and loaded, the detector
\* having reported bs
LoadedWith(bs) ==
  LET faces == WithOids(Detected(bs), {})
      S1 == [Loaded EXCEPT !.photo[1].faces = faces]
  IN setFaceCount(renderOverlay(S1, faces, S1.photo[1].selectedFaceId),
                  Len(faces))

\* where the pointer goes down on the canvas: in both overlapping boxes, in
\* the first only, in the second only, in the flat one, on no box, on the
\* bottom-left and on the top-right corner of the first
DownPoints ==
  {<<100, 100>>, <<50, 50>>, <<150, 150>>, <<320, 303>>, <<250, 50>>,
   <<40, 120>>, <<120, 40>>}
\* where it moves and is released: left of the canvas, on it, and close to
\* where the first box is grabbed
UpPoints == {<<-40, 50>>, <<250, 50>>, <<60, 60>>}

PointerStep(R, name) ==
  StepWith(R.S, Op(name, "other", activePhotoId, TRUE,
                   IF ActiveFound(St) THEN Snapshot(photo[activePhotoId])
                   ELSE NoSnapshot, NoTask),
           IF name = "handlePointerDown"
             THEN [budget EXCEPT !.edits = @ - 1] ELSE budget,
           R.P)

\* mousedown / touchstart on the overlay canvas
PointerDown ==
  /\ ~pointer.drag.active
  /\ budget.edits > 0
  /\ ui.appState = "editing"
  /\ \E pt \in DownPoints, t \in Clock :
       PointerStep(handlePointerDown(St, pointer, pt[1], pt[2], t),
                   "handlePointerDown")

\* mousemove / touchmove during a drag
PointerMove ==
  /\ pointer.drag.active
  /\ \E pt \in UpPoints :
       /\ <<pt[1], pt[2]>> # <<pointer.drag.currentX, pointer.drag.currentY>>
       /\ PointerStep(handlePointerMove(St, pointer, pt[1], pt[2]),
                      "handlePointerMove")

\* mouseup / touchend during a drag
PointerUp ==
  /\ pointer.drag.active
  /\ \E pt \in UpPoints \cup {<<pointer.drag.startX, pointer.drag.startY>>} :
       PointerStep(handlePointerUp(St, pointer, pt[1], pt[2]),
                   "handlePointerUp")

InitPointerSpec ==
  /\ Start(LoadedWith(PointerBoxes))
  /\ op = Op("loadDone", "other", 1, TRUE, NoSnapshot, NoTask)
  /\ recent = <<1>>
  /\ track = Off
  /\ budget = Budget(PointerEdits, 0, 0, 0, 0, 0, FALSE, FALSE)

\* one loaded photo: taps and drags on the overlay, undo and redo by key
NextPointer ==
  \/ PointerDown
  \/ PointerMove
  \/ PointerUp
  \/ Undo
  \/ Redo

SpecPointer == InitPointerSpec /\ [][NextPointer]_vars

\* -------------------------------------------------------- batch export names
\* A file name is the sequence of its characters; "faceblock_" is kept as one.
\* photos in one batch export
MaxZipPhotos == 3

RECURSIVE LastDot(_, _)
\* the place of the last "." of name at or before i, 0 when there is none
LastDot(name, i) ==
  IF i = 0 THEN 0 ELSE IF name[i] = "." THEN i ELSE LastDot(name, i - 1)

\* originalFilename.replace(/\.[^.]+$/, ""): the last dot goes, with what
\* follows it, when something follows it
baseNameOf(originalFilename) ==
  LET d == LastDot(originalFilename, Len(originalFilename))
  IN IF d > 0 /\ d < Len(originalFilename)
       THEN SubSeq(originalFilename, 1, d - 1) ELSE originalFilename

Digit(d) == <<"0", "1", "2", "3", "4", "5", "6", "7", "8", "9">>[d + 1]
RECURSIVE Decimal(_)
\* the counter as the template literal writes it
Decimal(n) ==
  IF n < 10 THEN <<Digit(n)>> ELSE Decimal(n \div 10) \o <<Digit(n % 10)>>

\* `faceblock_${baseName}${ext}` and `faceblock_${baseName}(${counter})${ext}`
Plain(baseName, ext) == <<"faceblock_">> \o baseName \o ext
Numbered(baseName, counter, ext) ==
  <<"faceblock_">> \o baseName \o <<"(">> \o Decimal(counter) \o <<")">> \o ext

\* the extension for state.format
ExtOf(format) ==
  IF format = "jpeg" THEN <<".", "j", "p", "g">> ELSE <<".", "p", "n", "g">>

RECURSIVE Disambiguate(_, _, _, _, _)
\* while (usedNames.has(filename)) { filename = ...; counter++ }
Disambiguate(usedNames, baseName, ext, filename, counter) ==
  IF filename \in usedNames
    THEN Disambiguate(usedNames, baseName, ext,
                      Numbered(baseName, counter, ext), counter + 1)
  ELSE [filename |-> filename, counter |-> counter]

\* a name for the next photo from the loop that tries the counter once
zipPhotoOnce(Z, format) ==
  LET baseName == baseNameOf(Z.left[1])
      plain == Plain(baseName, ExtOf(format))
      named == IF plain \in Z.usedNames
                 THEN [filename |-> Numbered(baseName, 1, ExtOf(format)),
                       counter |-> 2]
               ELSE [filename |-> plain, counter |-> 1]
  IN [Z EXCEPT !.left = Tail(@),
               !.usedNames = @ \cup {named.filename},
               !.files = Append(@, [filename |-> named.filename,
                                    originalFilename |-> Z.left[1],
                                    ext |-> ExtOf(format),
                                    usedBefore |-> Z.usedNames,
                                    counter |-> named.counter])]

\* one turn of the loop of handleDownloadAll over state.photos, for a photo
\* that has its canvas: the name under which its blob is put in the archive
zipPhoto(Z, format) ==
  LET originalFilename == Z.left[1]
      ext == ExtOf(format)
      baseName == baseNameOf(originalFilename)
      named == Disambiguate(Z.usedNames, baseName, ext, Plain(baseName, ext), 1)
  IN [Z EXCEPT !.left = Tail(@),
               !.usedNames = @ \cup {named.filename},
               !.files = Append(@, [filename |-> named.filename,
                                    originalFilename |-> originalFilename,
                                    ext |-> ext,
                                    usedBefore |-> Z.usedNames,
                                    counter |-> named.counter])]

\* the names the selected files have
OriginalNames ==
  {<<"a", ".", "j", "p", "g">>, <<"a", ".", "p", "n", "g">>,
   <<"a", "(", "1", ")", ".", "j", "p", "g">>,
   <<"a", "(", "2", ")", ".", "j", "p", "g">>,
   <<"a", "(", "1", ")", "(", "1", ")", ".", "p", "n", "g">>,
   <<"a", ".">>}

Formats == {"png", "jpeg"}

exceptZip == <<photos, photo, activePhotoId, sensitivity, queueRunning, tasks,
               now, ui, op, recent, track, budget, gfx, pointer, chosen>>

\* the next photo has its canvas; state.format is read in every turn
ZipPhoto ==
  /\ zip.on /\ zip.left # <<>>
  /\ \E format \in Formats : zip' = zipPhoto(zip, format)
  /\ UNCHANGED exceptZip

\* the next photo has no canvas after processPhoto: it is skipped
ZipSkip ==
  /\ zip.on /\ zip.left # <<>>
  /\ zip' = [zip EXCEPT !.left = Tail(@)]
  /\ UNCHANGED exceptZip

InitZip ==
  /\ photos = St0.photos /\ photo = St0.photo
  /\ activePhotoId = St0.activePhotoId /\ sensitivity = St0.sensitivity
  /\ queueRunning = St0.queueRunning /\ tasks = St0.tasks /\ now = St0.now
  /\ ui = St0.ui /\ pointer = InitPointer
  /\ gfx = NoGfx /\ chosen = NoChoice
  /\ op = InitOp /\ recent = <<>> /\ track = Off
  /\ budget = Budget(0, 0, 0, 0, 0, 0, FALSE, FALSE)
  /\ \E n \in 1..MaxZipPhotos :
       \E names \in [1..n -> OriginalNames] :
         zip = [on |-> TRUE, left |-> names, usedNames |-> {}, files |-> <<>>]

\* handleDownloadAll, one photo after the other
NextZip ==
  \/ ZipPhoto
  \/ ZipSkip

SpecZip == InitZip /\ [][NextZip]_vars

\* ------------------------------------------------------------ file selection
\* files handed over in one selection, drop or paste
MaxChosen == 2
\* photo objects created in one behaviour of the file selection
InputFiles == 3
\* external operations awaited at a time in the file selection
InputTasks == 1

\* 50 * 1024 * 1024
SizeLimit == 52428800

\* A file has its MIME type, kept as the part up to the slash and the rest,
\* and its size in bytes.
File(type, size) == [type |-> type, size |-> size]
\* f.type.startsWith("image/")
IsImage(f) == Len(f.type) >= 1 /\ f.type[1] = "image/"
\* the filter of handleFilesSelected
IsValid(f) == IsImage(f) /\ f.size <= SizeLimit

\* an image, an image of exactly 50 MB, an image one byte larger, a text file
FileKinds ==
  {File(<<"image/", "png">>, 1024), File(<<"image/", "jpeg">>, SizeLimit),
   File(<<"image/", "png">>, SizeLimit + 1), File(<<"text/", "plain">>, 1024)}

Selections == UNION {[1..n -> FileKinds] : n \in 1..MaxChosen}

\* what reaches onFilesSelected: the file input passes every file, the drop
\* and the paste handlers pass the files whose type starts with "image/"
PassedOn(by, files) ==
  IF by = "change" THEN files ELSE SelectSeq(files, IsImage)

\* the change, drop and paste listeners of the UI module with the handler
\* they call, up to its await of the thumbnails
filesChosen(S, by, files) ==
  LET passed == PassedOn(by, files)
  IN IF Len(passed) = 0 THEN S
     ELSE handleFilesSelected(S, Len(SelectSeq(passed, IsValid)))

\* the status text the call showed, "none" when it showed none
Said(S, by, files) ==
  LET shown == filesChosen(showStatus(S, "unset"), by, files).ui.status
  IN IF shown = "unset" THEN "none" ELSE shown

FilesChosen ==
  \E by \in {"change", "drop", "paste"}, files \in Selections :
    LET n == Len(SelectSeq(files, IsValid))
    IN /\ n <= budget.files
       /\ Len(tasks) < budget.tasks
       /\ StepAll(filesChosen(St, by, files),
                  Op("filesChosen", "other", Null, TRUE, NoSnapshot, NoTask),
                  [budget EXCEPT !.files = @ - n],
                  pointer,
                  [by |-> by, files |-> files, said |-> Said(St, by, files)])

InitInput ==
  /\ Start(St0)
  /\ op = InitOp
  /\ recent = <<>>
  /\ track = Off
  /\ budget = Budget(0, 0, 0, 0, InputFiles, InputTasks, FALSE, FALSE)

\* files of any kind by file input, drop and paste, and the pipeline
NextInput ==
  \/ FilesChosen
  \/ ThumbnailsDone
  \/ LoadDone

SpecInput == InitInput /\ [][NextInput]_vars

\* ------------------------------------------------- sensitivity and loads

\* sensitivity changes in one behaviour of the sensitivity specification
SensRedetects == 2
\* files selected in one behaviour of the sensitivity specification
SensFiles == 2
\* external operations awaited at the same time in the sensitivity
\* specification
SensTasks == 2

InitSensitivity ==
  /\ Start(St0)
  /\ op = InitOp
  /\ recent = <<>>
  /\ track = Off
  /\ budget = Budget(0, MaxFailures, 0, SensRedetects, SensFiles, SensTasks,
                     FALSE, FALSE)

\* the sensitivity slider moved at any moment of the pipeline: with no
\* photo, with a photo that loads, with a loaded photo, with a failed one
NextSensitivity ==
  \/ FilesSelected
  \/ ThumbnailsDone
  \/ LoadDone
  \/ PhotoSwitch
  \/ SensitivityChange
  \/ RedetectDone

SpecSensitivity == InitSensitivity /\ [][NextSensitivity]_vars

\* ------------------------------------------------------ export failures

\* files of the selection that starts a behaviour of the export
\* specification
ExportFiles == 2
\* exports, single or batch, started in one behaviour
ExportRuns == 2
\* loads, renderings, blobs and archives that fail in one behaviour
ExportFailures == 2
\* external operations awaited at the same time in the export specification
ExportTasks == 2

InitExport ==
  /\ Start(AfterSelection(ExportFiles))
  /\ op = Op("thumbnailsDone", "other", Null, TRUE, NoSnapshot, NoTask)
  /\ recent = <<>>
  /\ track = Off
  /\ budget = Budget(0, ExportFailures, ExportRuns, 0, 0, ExportTasks,
                     FALSE, FALSE)

\* single and batch exports whose renderings, blobs and archives may fail
NextExport ==
  \/ LoadDone
  \/ PhotoSwitch
  \/ DownloadClick
  \/ ExportDone
  \/ DownloadAll
  \/ BlobDone
  \/ ZipDone

SpecExport == InitExport /\ [][NextExport]_vars

\* a thumbnail generation or a load is awaited: ThumbnailsDone or LoadDone
\* is enabled
HasAwaited == \E k \in 1..Len(tasks) : tasks[k].kind \in {"thumb", "load"}

\* the photo pipeline in which every awaited thumbnail generation and every
\* awaited load ends while the user may stay idle.  An awaited operation
\* stays awaited until it ends, so the behaviours in which, again and again,
\* nothing is awaited are behaviours in which the completions are weakly
\* fair
SpecSettles == Spec /\ []<>~HasAwaited

\* ------------------------------------------------------------------ claims
Listed == {photos[i] : i \in 1..Len(photos)}
Faces(id) == StripOid(photo[id].faces)
ManualOf(fs) == SelectSeq(StripOid(fs), LAMBDA f : f.manual)

C1RoundTrip ==
  (track.on /\ track.k = track.n /\ track.n <= MAX_UNDO)
    => Faces(track.pid) = track.base

C1RedoAfterUndo ==
  (op.kind = "undo" /\ op.ok /\ op'.kind = "redo")
    => Snapshot(photo'[op.pid]) = op.before

C2Claim ==
  [][LET P == op'.pid
     IN  (/\ op'.name = "loadDone"
          /\ op'.ok
          /\ P \in Listed
          /\ photo[P].fullCanvas = "null"
          /\ Len(photo[P].faces) > 0)
           => /\ StripOid(photo'[P].faces) = Faces(P)
              /\ photo'[P].selectedFaceId = photo[P].selectedFaceId
              /\ photo'[P].undoStack = photo[P].undoStack
              /\ photo'[P].redoStack = photo[P].redoStack]_vars

LoadedCount ==
  Cardinality({id \in Listed : photo[id].fullCanvas # "null"})

C3ActiveKept ==
  (/\ op'.name = "loadDone"
   /\ activePhotoId \in Listed
   /\ photo[activePhotoId].fullCanvas # "null")
    => photo'[activePhotoId].fullCanvas # "null"

\* C3: the photos of state.photos with a fullCanvas are never more than
\* MAX_LOADED_CANVASES, and the step in which evictCanvases runs never nulls
\* the fullCanvas of the active photo.
C3Claim ==
  [](LoadedCount <= MAX_LOADED_CANVASES) /\ [][C3ActiveKept]_vars

\* C3: evictCanvases has released a surface, MAX_LOADED_CANVASES photos hold
\* one and the active photo is among them
C3Witness ==
  /\ op.name = "loadDone"
  /\ LoadedCount = MAX_LOADED_CANVASES
  /\ activePhotoId \in Listed
  /\ photo[activePhotoId].fullCanvas # "null"
  /\ \E id \in Listed : photo[id].status = "detected"
                        /\ photo[id].fullCanvas = "null"

\* C4: processPhoto resumed for a photo that is no longer in state.photos
\* changes neither what the UI shows nor any photo of the list.
C4Claim ==
  [][(op'.name = "loadDone" /\ op'.pid \notin Listed)
       => LET S2 == processPhotoDone(St, op'.task, op'.ok)
          IN  /\ S2.ui.preview = ui.preview
              /\ S2.ui.currentFaces = ui.currentFaces
              /\ S2.ui.currentSelectedId = ui.currentSelectedId
              /\ S2.ui.faceCount = ui.faceCount
              /\ S2.ui.appState = ui.appState
              /\ S2.ui.status = ui.status
              /\ \A id \in Listed : S2.photo[id] = photo[id]]_vars

\* C5: no two load/detect operations are in flight for the same photo.
C5Claim ==
  \A i, j \in 1..Len(tasks) :
    (/\ i # j
     /\ tasks[i].kind \in {"load", "redetect"}
     /\ tasks[j].kind \in {"load", "redetect"})
      => tasks[i].pid # tasks[j].pid

\* C6: when no operation is in flight and the active photo is loaded, the
\* preview shows the active photo and currentFaces / currentSelectedId are
\* its faces and its selection.
C6Claim ==
  (/\ Len(tasks) = 0
   /\ activePhotoId \in Listed
   /\ photo[activePhotoId].status = "detected"
   /\ photo[activePhotoId].fullCanvas # "null")
    => /\ ui.preview = activePhotoId
       /\ ui.currentFaces = Faces(activePhotoId)
       /\ ui.currentSelectedId = photo[activePhotoId].selectedFaceId

\* C7: a step of click, draw, move, resize, remove or re-detection that
\* changes the face list of a photo grows its undoStack by one snapshot (up
\* to MAX_UNDO), for an edit the snapshot of the faces and selectedFaceId
\* before the step, and leaves its redoStack empty.
C7Claim ==
  [][LET P == op'.pid
     IN  (/\ op'.kind = "edit" \/ op'.name = "redetectDone"
          /\ P \in Listed
          /\ StripOid(photo'[P].faces) # Faces(P))
           => /\ Len(photo'[P].undoStack)
                   = Min(Len(photo[P].undoStack) + 1, MAX_UNDO)
              /\ op'.kind = "edit"
                   => photo'[P].undoStack[Len(photo'[P].undoStack)]
                        = Snapshot(photo[P])
              /\ photo'[P].redoStack = <<>>]_vars

C8OldestDropped ==
  LET P == op'.pid
  IN  (op'.kind = "edit" /\ Len(photo[P].undoStack) = MAX_UNDO)
        => photo'[P].undoStack
             = Tail(photo[P].undoStack) \o <<Snapshot(photo[P])>>

C9Claim ==
  [][LET P == op'.pid
     IN  (op'.name = "redetectDone" /\ op'.ok /\ P \in Listed)
           => /\ ManualOf(photo'[P].faces) = ManualOf(photo[P].faces)
              /\ \A i, j \in 1..Len(photo'[P].faces) :
                   (photo'[P].faces[i].manual /\ ~photo'[P].faces[j].manual)
                     => j < i]_vars

\* position of a photo in the order of last activation, 0 if never active
Rank(id) == IndexIn(recent', id, 1)

\* C10: no photo whose surface evictCanvases releases was active more
\* recently than a non-active photo that was active before and keeps its
\* surface.
C10Claim ==
  [][\A e, k \in Listed :
       (/\ op'.name = "loadDone"
        /\ InSeq(photos', e)
        /\ InSeq(photos', k)
        /\ photo[e].fullCanvas # "null"
        /\ photo'[e].fullCanvas = "null"
        /\ k # activePhotoId'
        /\ photo'[k].fullCanvas # "null"
        /\ Rank(k) > 0)
         => Rank(e) <= Rank(k)]_vars

\* the load/detect operations in flight for photo id
LoadsOf(ts, id) ==
  Len(SelectSeq(ts, LAMBDA t : t.kind = "load" /\ t.pid = id))

\* C11: every change of the status of a photo that can still be reached is
\* a step of pending -> loading -> detected | error: it becomes detected or
\* error only from loading, becomes loading only in a step that leaves a
\* load/detect of that photo in flight, never returns to pending, and never
\* changes directly between detected and error.
C11Claim ==
  [][\A id \in DOMAIN photo :
       (photo'[id].status # photo[id].status
        /\ photo'[id].status # "collected")
         => /\ photo'[id].status # "pending"
            /\ photo'[id].status \in {"detected", "error"}
                 => photo[id].status = "loading"
            /\ photo'[id].status = "loading" => LoadsOf(tasks', id) > 0]_vars

\* the operation whose completion is the step: the one taken out of tasks
Completed(k) ==
  /\ [tasks[k] EXCEPT !.cont = <<>>] = op'.task
  /\ Len(tasks') >= Len(tasks) - 1
  /\ SubSeq(tasks', 1, Len(tasks) - 1) = RemoveAt(tasks, k)

\* the listed photos the iterator of a queue drain has yet to visit that are
\* pending
PendingFrom(i) == {j \in i..Len(photos) : photo[photos[j]].status = "pending"}

C12Failure ==
  LET P == op'.pid
  IN  (op'.name = "loadDone" /\ ~op'.ok)
       => /\ photo'[P].status \in {"error", "collected"}
          /\ photo'[P].status = "error" => photo'[P].error = "message"
          /\ \A id \in DOMAIN photo \ {P} :
               \/ photo'[id] = photo[id]
               \/ photo'[id] = Collected(id)
               \/ /\ photo'[id] = [photo[id] EXCEPT !.status = "loading"]
                  /\ LoadsOf(tasks', id) = LoadsOf(tasks, id) + 1
          /\ \E k \in 1..Len(tasks) :
               /\ Completed(k)
               /\ (/\ Len(tasks[k].cont) > 0
                   /\ tasks[k].cont[1].fn = "queue"
                   /\ tasks[k].cont[1].live)
                    => LET rest == PendingFrom(tasks[k].cont[1].i)
                       IN  IF rest = {}
                           THEN ~queueRunning'
                           ELSE LET j == CHOOSE m \in rest :
                                           \A n \in rest : m <= n
                                IN  /\ queueRunning'
                                    /\ photo'[photos[j]].status = "loading"
                                    /\ LoadsOf(tasks', photos[j]) > 0

\* C12: a load/detect that fails sets status error and a message on its own
\* photo; every other photo keeps its faces, surface and history, and its
\* status unless the step starts its load; and a queue drain that awaited the
\* load goes on with the next pending photo, or ends when there is none.
C12Claim == [][C12Failure]_vars

\* C12: the load of a photo of the queue has failed, the photo shows the
\* error, and the drain is loading the photo after it
C12Witness ==
  /\ op.name = "loadDone"
  /\ ~op.ok
  /\ ~op.task.isActive
  /\ op.pid \in Listed
  /\ photo[op.pid].status = "error"
  /\ queueRunning
  /\ \E j \in 1..Len(photos) :
       /\ j > IndexIn(photos, op.pid, 1)
       /\ photo[photos[j]].status = "loading"
       /\ LoadsOf(tasks, photos[j]) > 0

\* C13: a photo whose status is error leaves error, or has a load/detect
\* started, only in a step in which the user retries it: a switch to that
\* photo or a change of the sensitivity while it is active.
C13Claim ==
  [][\A id \in DOMAIN photo :
       (/\ photo[id].status = "error"
        /\ \/ photo'[id].status \notin {"error", "collected"}
           \/ LoadsOf(tasks', id) > LoadsOf(tasks, id))
         => /\ op'.name \in {"handlePhotoSwitch", "handleSensitivityChange"}
            /\ op'.pid = id]_vars

\* C14: processPhoto called on a photo with status detected and a
\* fullCanvas starts no load or detection and changes nothing: not the
\* photo's status, faces, fullCanvas, selection or stacks, not any other
\* photo, not what the UI shows.
C14Claim ==
  [][(/\ op'.name = "processPhoto"
      /\ photo[op'.pid].status = "detected"
      /\ photo[op'.pid].fullCanvas # "null")
       => /\ photo' = photo
          /\ photos' = photos
          /\ tasks' = tasks
          /\ activePhotoId' = activePhotoId
          /\ queueRunning' = queueRunning
          /\ ui' = ui]_vars

\* C14: processPhoto was called on a loaded photo that has a region
\* selected and an edit to undo, while another photo was loading
C14Witness ==
  /\ op.name = "processPhoto"
  /\ photo[op.pid].status = "detected"
  /\ photo[op.pid].fullCanvas # "null"
  /\ photo[op.pid].selectedFaceId # NullId
  /\ Len(photo[op.pid].undoStack) > 0
  /\ \E id \in Listed \ {op.pid} : LoadsOf(tasks, id) > 0

\* C15: no photo of the list that the iterator of a running drain has gone
\* past is pending.
C15Claim ==
  \A k \in 1..Len(tasks) : \A c \in 1..Len(tasks[k].cont) :
    LET fr == tasks[k].cont[c]
    IN  (fr.fn = "queue" /\ fr.live)
          => \A j \in 1..Len(photos) :
               j < fr.i => photo[photos[j]].status # "pending"

\* the drains of processQueue that are executing: each one is suspended in
\* its await of processPhoto
Drains ==
  Len(SelectSeq(tasks, LAMBDA t : \E c \in 1..Len(t.cont) :
                                    t.cont[c].fn = "queue"))

\* C16: at most one drain of processQueue is executing, queueRunning is true
\* exactly while one is, and processQueue called while queueRunning is true
\* changes nothing.
C16Claim ==
  /\ Drains <= 1
  /\ queueRunning <=> Drains = 1
  /\ queueRunning => processQueue(St) = St

\* C16: handleFilesSelected has called processQueue for photos it added
\* while a drain was loading an older photo; that drain is the only one and
\* a new photo is still pending
C16Witness ==
  /\ op.name = "thumbnailsDone"
  /\ queueRunning
  /\ Drains = 1
  /\ Len(tasks) = 1
  /\ ~InSeq(op.task.newPhotos, tasks[1].pid)
  /\ \E j \in 1..Len(op.task.newPhotos) :
       /\ op.task.newPhotos[j] \in Listed
       /\ photo[op.task.newPhotos[j]].status = "pending"

\* C17: when state.photos is not empty activePhotoId is the id of exactly
\* one photo of the list, and when it is empty activePhotoId is null.
C17Claim ==
  IF Len(photos) > 0
  THEN Cardinality({j \in 1..Len(photos) : photos[j] = activePhotoId}) = 1
  ELSE activePhotoId = Null

C18Selection ==
  LET n == budget.files - budget'.files
      room == MAX_PHOTOS - Len(photos)
      k == Min(n, room)
  IN  op'.name = "handleFilesSelected"
        => IF room <= 0
           THEN /\ photos' = photos
                /\ photo' = photo
                /\ ui'.status = "maxPhotos"
           ELSE /\ Len(photos') = Len(photos) + k
                /\ SubSeq(photos', 1, Len(photos)) = photos
                /\ \A i \in 1..k :
                     LET id == photos'[Len(photos) + i]
                     IN  /\ id \notin DOMAIN photo
                         /\ photo'[id].file = i
                         /\ photo'[id].status = "pending"
                /\ k < n => /\ ui'.status = "addedPartial"
                            /\ ui'.statusArgs = <<k, n>>
                /\ k = n => /\ ui'.status = ui.status
                            /\ ui'.statusArgs = ui.statusArgs

\* C18: state.photos never holds more than MAX_PHOTOS photos; a selection of
\* n valid files made with room for fewer adds its first (MAX_PHOTOS - length)
\* files, in order, and reports that number and n; one made with no room adds
\* nothing; one that fits adds all its files and reports nothing.
C18Claim == [](Len(photos) <= MAX_PHOTOS) /\ [][C18Selection]_vars

\* C18: a selection of two files found room for one: the list is full and
\* the report says 1 of 2
C18Witness ==
  /\ op.name = "handleFilesSelected"
  /\ Len(photos) = MAX_PHOTOS
  /\ ui.status = "addedPartial"
  /\ ui.statusArgs = <<1, 2>>
  /\ photo[photos[MAX_PHOTOS]].file = 1

\* C18: a selection was made when the list was full and added nothing
C18WitnessFull ==
  /\ op.name = "handleFilesSelected"
  /\ Len(photos) = MAX_PHOTOS
  /\ ui.status = "maxPhotos"

\* the snapshots a photo object holds in its two stacks
Held(p) ==
  {p.undoStack[i] : i \in 1..Len(p.undoStack)}
  \cup {p.redoStack[i] : i \in 1..Len(p.redoStack)}

C19Frame ==
  LET P == activePhotoId
  IN  op'.kind \in {"edit", "select", "undo", "redo"}
        => /\ \A id \in DOMAIN photo \ {P} : photo'[id] = photo[id]
           /\ P \in Listed
                => /\ Held(photo'[P])
                        \subseteq Held(photo[P]) \cup {Snapshot(photo[P])}
                   /\ (op'.kind = "undo" /\ op'.ok)
                        => Snapshot(photo'[P])
                             = photo[P].undoStack[Len(photo[P].undoStack)]
                   /\ (op'.kind = "redo" /\ op'.ok)
                        => Snapshot(photo'[P])
                             = photo[P].redoStack[Len(photo[P].redoStack)]

\* C19: an edit, a selection, an undo or a redo leaves every photo other than
\* the active one as it was; the snapshots in the stacks of the active photo
\* afterwards are those its own stacks held and the snapshot of its own
\* state before the step; and undo and redo restore the top of the active
\* photo's own stack.
C19Claim == [][C19Frame]_vars

\* C19: an undo on one photo while another photo has a history of its own,
\* with a different face list
C19Witness ==
  /\ op.kind = "undo"
  /\ op.ok
  /\ activePhotoId \in Listed
  /\ Len(photo[activePhotoId].redoStack) > 0
  /\ \E id \in Listed \ {activePhotoId} :
       /\ Len(photo[id].undoStack) > 0
       /\ Faces(id) # Faces(activePhotoId)
       /\ Held(photo[id]) \cap Held(photo[activePhotoId]) = {}

\* C20: when a switch of the active photo has completed (the step was the
\* switch itself and nothing is awaited, or it was the completion of the
\* load of the active photo and nothing else is awaited), the undo button is
\* enabled iff the active photo's undoStack is not empty and the redo button
\* iff its redoStack is not empty.
C20Claim ==
  (/\ Len(tasks) = 0
   /\ activePhotoId \in Listed
   /\ \/ op.name = "handlePhotoSwitch"
      \/ op.name = "loadDone" /\ op.pid = activePhotoId)
    => /\ ui.canUndo <=> Len(photo[activePhotoId].undoStack) > 0
       /\ ui.canRedo <=> Len(photo[activePhotoId].redoStack) > 0

\* two calls of processImage, one after the other, on the same surface, the
\* same regions and the same settings
TwoRuns == gfx.on /\ gfx.prev.by # "none" /\ gfx.cur.by # "none"

\* C21: processImage run twice on the same surface with the same ordered
\* face list and settings yields pixel-identical output, for all ten
\* effects, glitch and redact included.
C21Claim == TwoRuns => gfx.cur.px = gfx.prev.px

\* the decoded image the behaviour started with
BaseImage == Image(RenderWidth, RenderHeight)

\* C22: processImage never modifies the base fullCanvas: it clones it,
\* applies each region's effect to the clone in face-list order (a later
\* region is painted over an earlier one) and returns the clone; the pixels
\* of fullCanvas are the same before and after any number of previews and
\* exports.
C22Claim ==
  gfx.on =>
    /\ gfx.fullCanvas.px = BaseImage.px
    /\ gfx.cur.by # "none" =>
         /\ Len(gfx.cur.log) = Len(gfx.faces)
         /\ \A i \in 1..Len(gfx.faces) :
              /\ gfx.cur.log[i].box = gfx.faces[i].box
              /\ gfx.cur.log[i].before =
                   IF i = 1 THEN BaseImage.px ELSE gfx.cur.log[i - 1].after
         /\ gfx.cur.px = gfx.cur.log[Len(gfx.faces)].after

\* a preview and then an export of two regions that changed pixels, the
\* second painted over pixels of the first
C22Witness ==
  /\ TwoRuns
  /\ gfx.prev.by = "updatePreview" /\ gfx.cur.by = "handleDownload"
  /\ Len(gfx.faces) = 2
  /\ gfx.cur.px # BaseImage.px
  /\ gfx.cur.log[1].wrote \cap gfx.cur.log[2].wrote # {}
  /\ gfx.fullCanvas.px = BaseImage.px

\* the calls of applyEffect in the last call of processImage
Applied == IF gfx.on THEN {gfx.cur.log[i] : i \in 1..Len(gfx.cur.log)} ELSE {}

\* C23: applyEffect applies exactly one implementation for every effect id:
\* each of the ten known ids dispatches to its own implementation, and any
\* other id (an unknown string, the empty string, undefined) applies Blur.
C23Claim ==
  \A e \in Applied :
    /\ e.effectId \in EffectIds => e.impl = Implementation(e.effectId)
    /\ e.effectId \notin EffectIds => e.impl = "applyBlur"

\* applyEffect was called with an id that is none of the ten, and the
\* region was blurred
C23Witness ==
  \E e \in Applied :
    /\ e.effectId \in {"sepia", "", UndefinedId}
    /\ e.impl = "applyBlur"
    /\ \E k \in e.wrote : e.after[k].r[1] = Original + Blurred

\* the pixels of the surface that lie in the box
Intersection(box) ==
  {Place(RenderWidth, c, r) : c \in Max(0, box.x)..(Min(RenderWidth, box.x + box.width) - 1),
                              r \in Max(0, box.y)..(Min(RenderHeight, box.y + box.height) - 1)}

\* C24: for glitch and swirl the set of pixels written is exactly the
\* intersection of the face box with the canvas, for a box that overflows any
\* edge (left, top, right, bottom); a box entirely outside the canvas writes
\* nothing.
C24Claim ==
  \A e \in Applied :
    e.impl \in {"applyGlitch", "applySwirl"} => e.wrote = Intersection(e.box)

\* C24, the values: glitch and swirl change no pixel outside the face box
C24Changed ==
  \A e \in Applied :
    e.impl \in {"applyGlitch", "applySwirl"} =>
      \A k \in 1..Len(e.after) :
        e.after[k] # e.before[k] => k \in Intersection(e.box)

\* C28: for a region without landmarks the eye-bar effect draws exactly one
\* horizontal bar across the box width whose vertical extent lies within
\* 28%-44% of the box height from the top, for every intensity 0..100.
C28Claim ==
  \A e \in Applied :
    (e.impl = "applyBlackBarEyes" /\ e.landmarks.n = 0) =>
      LET bar == EyeBar(e.box, e.intensity, e.landmarks)
      IN /\ bar.x0 = e.box.x * 10000
         /\ bar.x1 = (e.box.x + e.box.width) * 10000
         /\ bar.y0 >= e.box.y * 10000 + e.box.height * 2800
         /\ bar.y1 <= e.box.y * 10000 + e.box.height * 4400
         /\ e.wrote = {k \in 1..Len(e.after) :
                         InRect(ColOf(RenderWidth, k), RowOf(RenderWidth, k),
                                bar.x0, bar.y0, bar.x1, bar.y1, 10000)}

\* the regions of the active photo, before and after a step
ActiveList == IF ActiveFound(St) THEN StripOid(photo[activePhotoId].faces) ELSE <<>>
ActiveListAfter ==
  IF activePhotoId' # Null /\ InSeq(photos', activePhotoId')
    THEN StripOid(photo'[activePhotoId'].faces) ELSE <<>>

C25Step ==
  (/\ op'.name = "handlePointerUp"
   /\ pointer'.last.called \in {"onFaceMoved", "onFaceResized"})
    => \A i \in 1..Len(ActiveListAfter) :
         ActiveListAfter[i].id = pointer.drag.targetFaceId =>
           /\ ActiveListAfter[i].box.width >= 20
           /\ ActiveListAfter[i].box.height >= 20

\* C25: after every move or resize of a region its box has width >= 20 and
\* height >= 20 image pixels, and a resize dragged past the opposite edge
\* never yields a negative or sign-flipped width or height.
C25Claim == [][C25Step]_vars

\* the place in the overlay's list of the topmost region whose box contains
\* the point of the last pointer-down, 0 when no box contains it
TopmostAt ==
  LastContaining(ui.currentFaces, pointer'.last.x, pointer'.last.y,
                 Len(ui.currentFaces))

\* a pointer-down that was on neither the delete button nor the resize
\* handle of the selected region
C27Tap ==
  /\ op'.name = "handlePointerDown"
  /\ pointer'.last.hit \in {"face", "empty"}

C27HitTest ==
  C27Tap =>
    IF TopmostAt > 0
      THEN /\ pointer'.last.hit = "face"
           /\ pointer'.last.face = ui.currentFaces[TopmostAt].id
    ELSE pointer'.last.hit = "empty"

C27Selected ==
  (/\ C27Tap
   /\ pointer'.last.called = "onCanvasClick"
   /\ TopmostAt > 0)
    => photo'[activePhotoId'].selectedFaceId = ui.currentFaces[TopmostAt].id

\* C27: a tap on a point contained in several overlapping region boxes
\* resolves to the topmost region (the one latest in the face list), both in
\* the hit test of the overlay and in the region the controller then selects;
\* a point contained in no box resolves to "empty".
C27Claim == [][C27HitTest /\ C27Selected]_vars

\* C27, the overlay alone: the hit test resolves a tap to the topmost region
\* that contains the point, and to "empty" when none does.
C27Overlay == [][C27HitTest]_vars

\* the place of the dragged region in the face list of the active photo
Dragged == IndexOfFirst(ActiveList, pointer.drag.targetFaceId, 1)
\* how far the pointer is from where the drag started when it is released
ReleaseDx == pointer'.last.x - pointer.drag.startX
ReleaseDy == pointer'.last.y - pointer.drag.startY
\* the release puts the centre of the moved box outside the canvas
ReleasedOutside ==
  LET cx2 == 2 * pointer.drag.origBox.x + pointer.drag.origBox.width
               + 2 * ReleaseDx
      cy2 == 2 * pointer.drag.origBox.y + pointer.drag.origBox.height
               + 2 * ReleaseDy
  IN cx2 < 0 \/ cy2 < 0 \/ cx2 > 2 * CanvasSize.width
       \/ cy2 > 2 * CanvasSize.height
MovedBox ==
  Box(pointer.drag.origBox.x + ReleaseDx, pointer.drag.origBox.y + ReleaseDy,
      pointer.drag.origBox.width, pointer.drag.origBox.height)

\* the release of a move drag of the region that is in the face list and
\* selected
C26Release ==
  /\ op'.name = "handlePointerUp"
  /\ pointer.drag.mode = "move"
  /\ Dragged > 0
  /\ photo[activePhotoId].selectedFaceId = pointer.drag.targetFaceId

C26Effect ==
  IF ReleasedOutside
    THEN ActiveListAfter = RemoveAt(ActiveList, Dragged)
  ELSE IF ReleaseDx * ReleaseDx + ReleaseDy * ReleaseDy > 3 * 3
    THEN ActiveListAfter = [ActiveList EXCEPT ![Dragged].box = MovedBox]
  ELSE ActiveListAfter = ActiveList

C26AfterUndo ==
  [][(/\ op'.name = "handlePointerUp"
      /\ pointer.drag.mode = "move"
      /\ Dragged > 0) => C26Effect]_vars

C29Distinct ==
  \A i, j \in 1..Len(zip.files) :
    i # j => zip.files[i].filename # zip.files[j].filename

C29Smallest ==
  \A i \in 1..Len(zip.files) :
    LET e == zip.files[i]
        base == baseNameOf(e.originalFilename)
        turns == e.counter - 1
    IN /\ turns <= Cardinality(e.usedBefore)
       /\ IF Plain(base, e.ext) \notin e.usedBefore
            THEN e.filename = Plain(base, e.ext) /\ turns = 0
          ELSE /\ turns >= 1
               /\ e.filename = Numbered(base, turns, e.ext)
               /\ e.filename \notin e.usedBefore
               /\ \A k \in 1..(turns - 1) :
                    Numbered(base, k, e.ext) \in e.usedBefore

\* C29: in a batch export the names written to the archive are pairwise
\* distinct; when faceblock_<base><ext> is used already the name is
\* faceblock_<base>(k)<ext> with the smallest k >= 1 not yet used, for any
\* number and order of duplicate or parenthesised original names, and the
\* loop ends after at most as many turns as there are names in use.
C29Claim == zip.on => (C29Distinct /\ C29Smallest)

\* three photos were written, and the name of the last took two turns of the
\* loop: counter 1 was in use
C29Witness ==
  /\ zip.on
  /\ Len(zip.files) = 3
  /\ zip.files[3].counter = 3
  /\ zip.files[3].filename = Numbered(<<"a">>, 2, ExtOf("png"))

\* the files of the last selection that were rejected
Rejected == {i \in 1..Len(chosen'.files) : ~IsValid(chosen'.files[i])}
\* the last selection without them
Accepted == SelectSeq(chosen'.files, IsValid)

C30Reported ==
  (op'.name = "filesChosen" /\ Rejected # {}) => chosen'.said = "noValidFiles"

\* the photo list, the photos, the active photo and the queue are what they
\* are when the accepted files alone are handed over
C30Unchanged ==
  op'.name = "filesChosen" =>
    LET S2 == IF Accepted = <<>> THEN St
              ELSE filesChosen(St, "change", Accepted)
    IN /\ photos' = S2.photos
       /\ photo' = Collect(S2)
       /\ activePhotoId' = S2.activePhotoId
       /\ tasks' = S2.tasks
       /\ queueRunning' = S2.queueRunning

\* C30: each input error (a file that is no image, a file over 50 MB, a
\* selection with no valid file) is reported to the user at once, and
\* rejected files change nothing of the photo list, the active photo, the
\* statuses and the queue.
C30Claim == [][C30Reported /\ C30Unchanged]_vars

\* C30, the second half alone: rejected files change nothing.
C30NoMutation == [][C30Unchanged]_vars

\* C30, the file input alone with no valid file: the error is shown.
C30ZeroValid ==
  [][(op'.name = "filesChosen" /\ chosen'.by = "change" /\ Accepted = <<>>)
       => chosen'.said = "noValidFiles"]_vars

\* C33: in every reachable state the selectedFaceId of a photo is null or the
\* id of a region that is in the face list of that photo, after re-detection,
\* after a reload that follows an eviction, after undo and redo and after
\* removals alike.
C33Claim ==
  \A id \in Listed :
    \/ photo[id].selectedFaceId = NullId
    \/ \E i \in 1..Len(photo[id].faces) :
         photo[id].faces[i].id = photo[id].selectedFaceId

C36Bounded ==
  \A id \in DOMAIN photo :
    Len(photo[id].undoStack) + Len(photo[id].redoStack) <= MAX_UNDO

\* handleUndo takes the last snapshot off the undoStack and puts one on the
\* redoStack; without an active photo or with an empty undoStack it changes
\* nothing
C36Undo ==
  op'.name = "handleUndo" =>
    IF ActiveFound(St) /\ Len(photo[activePhotoId].undoStack) > 0
      THEN LET p == photo[activePhotoId]
               q == photo'[activePhotoId]
           IN /\ q.undoStack = SubSeq(p.undoStack, 1, Len(p.undoStack) - 1)
              /\ Len(q.redoStack) = Len(p.redoStack) + 1
              /\ SubSeq(q.redoStack, 1, Len(p.redoStack)) = p.redoStack
              /\ \A id \in DOMAIN photo \ {activePhotoId} : photo'[id] = photo[id]
    ELSE photo' = photo /\ photos' = photos /\ ui' = ui

C36Redo ==
  op'.name = "handleRedo" =>
    IF ActiveFound(St) /\ Len(photo[activePhotoId].redoStack) > 0
      THEN LET p == photo[activePhotoId]
               q == photo'[activePhotoId]
           IN /\ q.redoStack = SubSeq(p.redoStack, 1, Len(p.redoStack) - 1)
              /\ Len(q.undoStack) = Len(p.undoStack) + 1
              /\ SubSeq(q.undoStack, 1, Len(p.undoStack)) = p.undoStack
              /\ \A id \in DOMAIN photo \ {activePhotoId} : photo'[id] = photo[id]
    ELSE photo' = photo /\ photos' = photos /\ ui' = ui

BeforeEviction(k) == processPhotoLoaded(RemoveTask(St, k), tasks[k])

\* what evictCanvases makes of state X differs from X in nothing but the two
\* surfaces of the photos it evicts
EvictionFrame(X) ==
  LET E == evictCanvases(X)
  IN /\ E.photos = X.photos
     /\ E.activePhotoId = X.activePhotoId
     /\ DOMAIN E.photo = DOMAIN X.photo
     /\ \A id \in DOMAIN X.photo :
          \/ E.photo[id] = X.photo[id]
          \/ /\ X.photo[id].fullCanvas # "null"
             /\ E.photo[id] = [X.photo[id] EXCEPT !.fullCanvas = "null",
                                                  !.processedCanvas = "null"]
             /\ E.photo[id].status = "detected"

C34Added ==
  (/\ op'.name \in {"handleCanvasClick", "handleFaceDrawn"}
   /\ Len(ActiveListAfter) = Len(ActiveList) + 1)
    => LET f == ActiveListAfter[Len(ActiveListAfter)]
       IN f.manual /\ f.score = 100 /\ f.landmarks = "null"

C34Edited ==
  (/\ op'.name \in {"handleFaceMoved", "handleFaceResized"}
   /\ Len(ActiveListAfter) = Len(ActiveList))
    => \A i \in 1..Len(ActiveList) :
         ActiveListAfter[i].box # ActiveList[i].box => ActiveListAfter[i].manual

\* C34: the manual flag of a region is true whenever it was created or edited
\* by direct user action: a region added by click or draw is manual with
\* score 1 and no landmarks, and a detected region that the user moves or
\* resizes is manual afterwards, so that a later re-detection keeps it.
C34Claim == [][C34Added /\ C34Edited]_vars

\* C34, the first half alone: a region added by click or draw is manual, with
\* score 1 and no landmarks.
C34AddedOnly == [][C34Added]_vars

C32Distinct ==
  \A id \in Listed :
    \A i, j \in 1..Len(photo[id].faces) :
      i # j => photo[id].faces[i].id # photo[id].faces[j].id

\* the regions photo P holds: in its face list and in its undo snapshots
HeldRegions(P) ==
  {Faces(P)[i] : i \in 1..Len(Faces(P))}
  \cup UNION {{photo[P].undoStack[n].faces[i] :
                 i \in 1..Len(photo[P].undoStack[n].faces)} :
              n \in 1..Len(photo[P].undoStack)}

\* a detection or re-detection gives no region the id of another region,
\* one with another box, that the photo holds
C32Fresh ==
  LET P == op'.pid
  IN (op'.name \in {"loadDone", "redetectDone"} /\ op'.ok /\ P \in Listed)
       => \A i \in 1..Len(photo'[P].faces) :
            ~photo'[P].faces[i].manual =>
              \A g \in HeldRegions(P) :
                g.id = photo'[P].faces[i].id => g.box = photo'[P].faces[i].box

\* C32: over the lifetime of a photo an id denotes at most one region: no two
\* regions in the face list share an id (manual regions created in quick
\* succession and lists merged by re-detection included), and detection or
\* re-detection never returns the id of a different region that the photo
\* held before or still holds in an undo snapshot.
C32Claim == []C32Distinct /\ [][C32Fresh]_vars

\* C32, the ids a detection returns alone.
C32FreshOnly == [][C32Fresh]_vars

\* the loads and re-detections that a step starts
Started == {k \in 1..Len(tasks') : /\ tasks'[k].kind \in {"load", "redetect"}
                                   /\ ~InSeq(tasks, tasks'[k])}

C39Stored == op'.name = "handleSensitivityChange" => sensitivity' = ui'.slider

C39Used == \A k \in Started : tasks'[k].sens = ui'.slider

\* C39: after the slider moved to s, state.sensitivity is s and every load
\* or re-detection started from then on runs with s, whether or not the
\* active photo had a live surface, or a photo was active, at the change
C39Claim == [][C39Stored /\ C39Used]_vars

\* with a live surface on the active photo the change is stored
C39WithSurface ==
  [][(/\ op'.name = "handleSensitivityChange"
      /\ activePhotoId \in DOMAIN photo
      /\ InSeq(photos, activePhotoId)
      /\ photo[activePhotoId].fullCanvas # "null") => sensitivity' = ui'.slider]_vars

\* the loads started after a change that was not stored
C39LaterLoads == [][C39Used]_vars

\* the load that a step completed was awaited by the loop of
\* handleDownloadAll
ReloadedForExport ==
  /\ op'.name = "loadDone"
  /\ \E k \in 1..Len(tasks) : [tasks[k] EXCEPT !.cont = <<>>] = op'.task
  /\ \A k \in 1..Len(tasks) :
       [tasks[k] EXCEPT !.cont = <<>>] = op'.task
         => Len(tasks[k].cont) > 0 /\ tasks[k].cont[1].fn = "dlall"

C38Rendered ==
  (ReloadedForExport /\ op'.ok /\ InSeq(photos', op'.pid))
    => \E j \in 1..Len(tasks') : tasks'[j].kind = "blob" /\ tasks'[j].pid = op'.pid

C38Count ==
  (op.name = "zipDone" /\ op.download.made)
    => /\ ui.status = "downloaded"
       /\ ui.statusArgs = <<Len(op.download.files)>>
       /\ \A i, j \in 1..Len(op.download.files) :
            i # j => op.download.files[i].pid # op.download.files[j].pid

\* C38: a photo that handleDownloadAll reloaded with success is rendered and
\* archived, not skipped because its surface was evicted again; no photo is
\* archived twice, and the number in the success status is the number of
\* files of the archive
C38Claim == []C38Count /\ [][C38Rendered]_vars

\* the reloaded photo alone
C38NeverSkipped == [][C38Rendered]_vars

\* a photo whose surface was live when the loop reached it is archived
C38LiveArchived ==
  [][(/\ op'.name = "blobDone" /\ op'.ok) =>
       \/ \E j \in 1..Len(tasks') :
            /\ tasks'[j].kind \in {"blob", "load", "zip"}
            /\ Len(tasks'[j].cont) > 0
            /\ \E e \in 1..Len(tasks'[j].cont[1].files) :
                 tasks'[j].cont[1].files[e].pid = op'.pid
       \/ Len(photos') = 0]_vars

\* a step of the export failed: processImage threw, or the blob was null or
\* its creation threw, or the archive could not be generated
ExportStepFailed ==
  op'.name \in {"handleDownload", "exportDone", "blobDone", "zipDone"} /\ ~op'.ok

C31Reported ==
  ExportStepFailed
    => op'.kind # "escaped" /\ ui'.status \in {"exportFailed", "zipFailed"}

C31NoArchive ==
  (op'.name = "zipDone" /\ op'.ok)
    => \A e \in 1..Len(op'.download.files) : op'.download.files[e].blob = "blob"

\* C31: every failure of a single or batch export (rendering, blob, null
\* blob, archive) is caught and shown as an error status; no exception
\* leaves handleDownload or handleDownloadAll, and no archive is downloaded
\* after a step of the batch failed
C31Claim == [][C31Reported /\ C31NoArchive]_vars

\* the single export and the creation of the archive alone
C31SingleAndZip ==
  [][(/\ op'.name \in {"handleDownload", "exportDone", "zipDone"} /\ ~op'.ok)
       => /\ op'.kind # "escaped"
          /\ ui'.status \in {"exportFailed", "zipFailed"}
          /\ ~op'.download.made]_vars

\* the archive alone
C31ArchiveOnly == [][C31NoArchive]_vars

Pending(id) == InSeq(photos, id) /\ photo[id].status = "pending"

\* nothing is awaited: every load and thumbnail generation has ended and
\* only a gesture of the user can start another
Quiet == Len(tasks) = 0

\* C37: when every load has ended no photo of the list is left pending,
\* whatever was removed, added or reset while a drain of the queue was
\* running: without a gesture of the user a photo that is pending then would
\* stay pending for ever
C37Claim == Quiet => \A id \in 1..MaxFiles : ~Pending(id)

\* the same as a leads-to, for the behaviours in which every load ends
C37LeadsTo == \A id \in 1..MaxFiles : Pending(id) ~> ~Pending(id)

====
